---- MODULE Spec2Model ----
(***************************************************************************)
(* Plan lifecycle of the mog-backend server (src/server.js, second copy    *)
(* of the server starting at line 2250): the WorkoutPlan and User          *)
(* documents of one user, the in-process regeneratingPlans marker, and     *)
(* the request handlers that read and write them.                          *)
(*                                                                         *)
(* Node runs the code between two awaits without interruption, so a        *)
(* handler is cut at its awaits.  A database operation and the             *)
(* process-local code next to it form one step; code that touches the      *)
(* shared regeneratingPlans map is a step of its own.                      *)
(*                                                                         *)
(* Documents are Mongoose documents: save() writes the paths that were     *)
(* assigned or passed to markModified, nothing else (the handler at        *)
(* server.js:4911 says so itself), and every handler works on the private  *)
(* copy it loaded.                                                         *)
(***************************************************************************)
EXTENDS Integers, Sequences, FiniteSets, TLC

\* ---------------------------------------------------------------- bounds
NumProcs == 2
MaxDays == 3
MaxRaceDays == 2
MaxRequests == 4
MaxSeqRequests == 3

MaxImageRequests == 4
MaxJobRuns == 2
MaxLiveRequests == 3

ScoreMargin == 3

\* ------------------------------------------------------ program constants
WeekDays == 6
MinSteps == 3
DefaultStepCount == 4
CompleteMinDays == 3
CompleteMinSteps == 2
RegenTimeout == 2
BasePoints == 20
PointsPerExercise == 15
DefaultExerciseCount == 3
TemplateExercisesPerMuscle == 3

Procs == 1..NumProcs

VARIABLES
  workoutPlan,        \* the user's WorkoutPlan document in the store
  user,               \* the user's User document in the store
  scan,               \* whether the store holds a Scan document of the user
  regeneratingPlans,  \* the marker of this user in the regeneratingPlans map
  pc,                 \* per request slot: the await the handler is suspended at
  req,                \* per request slot: the request body
  plan,               \* per request slot: the WorkoutPlan document it loaded
  usr,                \* per request slot: the User document it loaded
  newPlan,            \* per request slot: the day list a generator returned to it
  fromStatus,         \* per request slot: status of the requested day when loaded
  weeklyReply,        \* the last answer of GET /api/training/:userId/weekly
  requests,           \* number of requests accepted so far
  rolloverCalls       \* week -> generateNextWeekPlan invocations not known to have failed

VARIABLES
  aiImageCache,                 \* cache key -> the images cached for it (<<>>: no entry)
  backgroundImageQueue,         \* the queued {exerciseName, exerciseId} entries
  isProcessingBackgroundQueue,  \* the flag of processBackgroundQueue
  consumer,                     \* the drain loop: where it is suspended and its locals
  sinceCall,                    \* seconds since the last provider call ended
  imageReply,                   \* the answer to the last generate-exercise-image request
  imageRequests,                \* number of image and cache-clearing requests so far
  drainLoops,                   \* processBackgroundQueue invocations that have not ended
  providerCalls,                \* image provider calls that await their answer
  processingUsers,              \* whether the processingUsers set holds the user
  job,                          \* the await generatePlanForUser is suspended at
  jobRuns                       \* number of admin generate-plan requests so far

jobVars == <<processingUsers, job, jobRuns>>

assetVars == <<aiImageCache, backgroundImageQueue, isProcessingBackgroundQueue,
               consumer, sinceCall, imageReply, imageRequests, drainLoops,
               providerCalls, jobVars>>

planVars == <<workoutPlan, user, scan, regeneratingPlans, pc, req, plan, usr,
              newPlan, fromStatus, weeklyReply, requests, rolloverCalls>>

VARIABLES
  scanPc,          \* where POST /api/scan/analyze is suspended
  previousScan,    \* whether Scan.findOne found a scan with a front photo
  identityAnswer,  \* what the identity provider answered
  identityCheck,   \* what verifyUserIdentity returned
  providerAnswer,  \* what the analysis provider answered
  analysis,        \* what analyzePhysiqueWithAI returned
  reanalysis,      \* the normalization of analysis
  scanReply,       \* the answer of POST /api/scan/analyze
  scores,          \* two scores given to getTierFromScore
  tiers            \* what getTierFromScore returned for them

scanVars == <<scanPc, previousScan, identityAnswer, identityCheck, providerAnswer,
              analysis, reanalysis, scanReply, scores, tiers>>

vars == <<planVars, assetVars, scanVars>>

\* ------------------------------------------------------------- documents
\* A weekly training plan as the User document and the clients hold it; 0
\* stands for an absent number
NoTrainingPlan == [exists |-> FALSE, currentWeek |-> 0, weekNumber |-> 0, days |-> <<>>]

AsTrainingPlan(days, week, number) ==
  [exists |-> TRUE, currentWeek |-> week, weekNumber |-> number, days |-> days]

NoPlanDoc ==
  [exists |-> FALSE, currentWeek |-> 0, weeklyPlan |-> <<>>, completedHistory |-> <<>>]

NoUserDoc ==
  [exists |-> FALSE, mogScore |-> 0, totalWorkouts |-> 0, latestScan |-> FALSE,
   weeklyTrainingPlan |-> NoTrainingPlan]

NoMarker == [set |-> FALSE, age |-> 0]

NoBody == [plan |-> NoTrainingPlan, dayNumber |-> 0, status |-> "none", score |-> 0]

DayBody(n) == [NoBody EXCEPT !.dayNumber = n]

\* x || 1
OrOne(x) == IF x = 0 THEN 1 ELSE x

\* ------------------------------------------------------------ generators
\* What a provider may answer: a list of days whose exercise lists all have
\* one of three shapes (no exercise, an exercise with 2 steps, an exercise
\* with 3 steps).
RawShapes == {<<>>, <<2>>, <<3>>}
RawPlansOf(counts, shapes) == { [i \in 1..n |-> s] : n \in counts, s \in shapes }
RawPlans == RawPlansOf(0..MaxDays, RawShapes)

\* A generator that does not force the first day to 'today'
NoFirstDay(index) == "upcoming"

\* index === 0 ? 'today' : 'upcoming'
FirstDayStatus(index) == IF index = 1 THEN "today" ELSE "upcoming"

RepairSteps(steps) == IF steps >= MinSteps THEN steps ELSE DefaultStepCount

\* generateAITrainingPlan, primary path: the structure repair of plan.days
RepairDays(raw) ==
  [i \in 1..Len(raw) |->
     [status |-> FirstDayStatus(i), day |-> i,
      exercises |-> [e \in 1..Len(raw[i]) |-> RepairSteps(raw[i][e])]]]

\* generateAITrainingPlan, retry path: day and status are rewritten, the
\* rest of each day is spread unchanged
RetryDays(raw) ==
  [i \in 1..Len(raw) |->
     [status |-> FirstDayStatus(i), day |-> i, exercises |-> raw[i]]]

\* generateNextWeekPlan, primary path
FormattedDays(raw) == RepairDays(raw)

\* generateNextWeekPlan, retry path: every exercise gets the four fixed steps
NextWeekRetryDays(raw) ==
  [i \in 1..Len(raw) |->
     [status |-> FirstDayStatus(i), day |-> i,
      exercises |-> [e \in 1..Len(raw[i]) |-> DefaultStepCount]]]

\* How a generator call ends: it returns a day list or it throws
Returns(days) == [days |-> days, ok |-> TRUE]
Throws == [days |-> <<>>, ok |-> FALSE]

\* generateAITrainingPlan: the primary answer repaired, else the retry answer
\* as it came, else an exception
AIPlanOutcomes(raws) ==
  { Returns(RepairDays(r)) : r \in raws } \cup { Returns(RetryDays(r)) : r \in raws }
    \cup {Throws}

\* generateNextWeekPlan: the primary answer formatted, else the retry answer
\* with fixed steps, else an exception
NextWeekOutcomes(raws) ==
  { Returns(FormattedDays(r)) : r \in raws }
    \cup { Returns(NextWeekRetryDays(r)) : r \in raws } \cup {Throws}

\* generateWorkoutPlan (2924..2990): the template week the scan stores; its
\* days carry no status and its exercises no steps
MuscleGroups == <<"chest", "back", "shoulders", "arms", "legs">>

KnownEquipment == {"full-gym", "home-gym", "bodyweight"}

InSeq(x, seq) == \E i \in DOMAIN seq : seq[i] = x

PrioritizedMuscles(weakPoints) ==
  LET NotWeak(m) == ~InSeq(m, weakPoints)
  IN weakPoints \o SelectSeq(MuscleGroups, NotWeak)

\* Array.prototype.slice(from, to), from and to counted from 0
Slice(seq, from, to) ==
  SubSeq(seq, from + 1, IF to < Len(seq) THEN to ELSE Len(seq))

MusclesForDay(day, weakPoints) ==
  LET from == ((day - 1) * 2) % 5
  IN Slice(PrioritizedMuscles(weakPoints), from, from + 2)

MuscleExercises(equipmentType, muscle) ==
  IF equipmentType \in KnownEquipment /\ InSeq(muscle, MuscleGroups)
  THEN TemplateExercisesPerMuscle ELSE 0

RECURSIVE DayExerciseCount(_, _)
DayExerciseCount(equipmentType, muscles) ==
  IF muscles = <<>> THEN 0
  ELSE MuscleExercises(equipmentType, Head(muscles))
         + DayExerciseCount(equipmentType, Tail(muscles))

\* The muscle field of the exercises pushed for the day's muscles, in order
RECURSIVE ExerciseMuscles(_, _)
ExerciseMuscles(equipmentType, muscles) ==
  IF muscles = <<>> THEN <<>>
  ELSE [e \in 1..MuscleExercises(equipmentType, Head(muscles)) |-> Head(muscles)]
         \o ExerciseMuscles(equipmentType, Tail(muscles))

\* muscles are the names the day's title is built from
GenerateWorkoutPlan(trainingDaysPerWeek, equipmentType, weakPoints) ==
  [d \in 1..trainingDaysPerWeek |->
     [status |-> "none", day |-> d,
      exercises |->
        [e \in 1..DayExerciseCount(equipmentType, MusclesForDay(d, weakPoints)) |-> 0],
      muscles |-> MusclesForDay(d, weakPoints),
      exerciseMuscles |-> ExerciseMuscles(equipmentType, MusclesForDay(d, weakPoints))]]

\* ----------------------------------------------------------- plan helpers
\* Array.prototype.findIndex(d => d.day === n), 0 for -1
FindDay(days, n) ==
  IF \E i \in DOMAIN days : days[i].day = n
  THEN CHOOSE i \in DOMAIN days :
         days[i].day = n /\ \A j \in DOMAIN days : days[j].day = n => i <= j
  ELSE 0

AllDone(days) == \A i \in DOMAIN days : days[i].status = "done"

\* complete-day with the user id in the path: the day becomes 'done' and the
\* day numbered one higher becomes 'today' when it is 'upcoming'
MarkDoneAdvance(days, n) ==
  LET i == FindDay(days, n)
      k == FindDay(days, n + 1)
      d1 == [days EXCEPT ![i].status = "done"]
  IN IF k # 0 /\ d1[k].status = "upcoming"
     THEN [d1 EXCEPT ![k].status = "today"]
     ELSE d1

HistoryEntry(doc, n) == [weekNumber |-> OrOne(doc.currentWeek), dayNumber |-> n]

ExerciseCount(days, i) ==
  IF Len(days[i].exercises) = 0 THEN DefaultExerciseCount ELSE Len(days[i].exercises)

MogPoints(count) == BasePoints + count * PointsPerExercise

\* document.save(): the paths in paths are written, the others keep the
\* stored value
SavePlan(stored, local, paths) ==
  [exists |-> TRUE,
   currentWeek |-> IF "currentWeek" \in paths THEN local.currentWeek ELSE stored.currentWeek,
   weeklyPlan |-> IF "weeklyPlan" \in paths THEN local.weeklyPlan ELSE stored.weeklyPlan,
   completedHistory |-> IF "completedHistory" \in paths THEN local.completedHistory
                        ELSE stored.completedHistory]

SaveUser(stored, local, paths) ==
  [exists |-> TRUE,
   mogScore |-> IF "mogScore" \in paths THEN local.mogScore ELSE stored.mogScore,
   totalWorkouts |-> IF "totalWorkouts" \in paths THEN local.totalWorkouts
                     ELSE stored.totalWorkouts,
   latestScan |-> IF "latestScan" \in paths THEN local.latestScan ELSE stored.latestScan,
   weeklyTrainingPlan |-> IF "weeklyTrainingPlan" \in paths THEN local.weeklyTrainingPlan
                          ELSE stored.weeklyTrainingPlan]

\* WorkoutPlan.findOneAndUpdate(..., {weeklyPlan, currentWeek: 1, ...}, {upsert: true})
UpsertPlan(stored, days, week) ==
  [exists |-> TRUE,
   currentWeek |-> IF week = 0 THEN OrOne(stored.currentWeek) ELSE week,
   weeklyPlan |-> days,
   completedHistory |-> stored.completedHistory]

\* ------------------------------------------------------------ bookkeeping
\* One step of the handler in slot p: where it is suspended next and what
\* its local variables hold
Suspend(p, label, body, doc, u, np) ==
  /\ pc' = [pc EXCEPT ![p] = label]
  /\ req' = [req EXCEPT ![p] = body]
  /\ plan' = [plan EXCEPT ![p] = doc]
  /\ usr' = [usr EXCEPT ![p] = u]
  /\ newPlan' = [newPlan EXCEPT ![p] = np]
  /\ UNCHANGED <<assetVars, scanVars>>

Step(p, label, body, doc, u, np) ==
  /\ Suspend(p, label, body, doc, u, np)
  /\ weeklyReply' = weeklyReply

\* The handler answers; its local variables are gone
Finish(p) ==
  /\ Step(p, "idle", NoBody, NoPlanDoc, NoUserDoc, <<>>)
  /\ fromStatus' = [fromStatus EXCEPT ![p] = "none"]

\* GET /api/training/:userId/weekly answers with res.json: "regenerating"
\* is { success: true, regenerating: true } (3973..3977), "plan" is
\* { success: true, plan } and "failed" is { success: false, message }
Reply(p, kind) ==
  /\ Suspend(p, "idle", NoBody, NoPlanDoc, NoUserDoc, <<>>)
  /\ fromStatus' = [fromStatus EXCEPT ![p] = "none"]
  /\ weeklyReply' = kind

\* A request arrives at an idle slot
Accept(p) ==
  /\ pc[p] = "idle"
  /\ requests' = requests + 1

Weeks == 1..(MaxRequests + 1)

CallRollover(doc) == [rolloverCalls EXCEPT ![OrOne(doc.currentWeek)] = @ + 1]

FailRollover(doc) == [rolloverCalls EXCEPT ![OrOne(doc.currentWeek)] = @ - 1]

\* A step that does not end the handler
Continue(p, label, body, doc, u, np) ==
  /\ Step(p, label, body, doc, u, np)
  /\ fromStatus' = fromStatus

\* ------------------------------ POST /api/training/:userId/complete-day
\* 4871..4915: mark the day, advance the next one, append to the history, all
\* on the loaded copy; the next await is plan.save()
CompleteMutate(p, doc, body) ==
  LET n == body.dayNumber
      i == FindDay(doc.weeklyPlan, n)
  IN IF i = 0
     THEN Finish(p)
     ELSE /\ Step(p, "cd_save", body,
                  [doc EXCEPT !.weeklyPlan = MarkDoneAdvance(doc.weeklyPlan, n),
                              !.completedHistory =
                                 Append(doc.completedHistory, HistoryEntry(doc, n))],
                  NoUserDoc, <<>>)
          /\ fromStatus' = [fromStatus EXCEPT ![p] = doc.weeklyPlan[i].status]

\* 4824..4828: WorkoutPlan.findOne
CD_FindPlan(p, n) ==
  /\ Accept(p)
  /\ IF workoutPlan.exists
     THEN CompleteMutate(p, workoutPlan, DayBody(n))
     ELSE Continue(p, "cd_np_user", DayBody(n), NoPlanDoc, NoUserDoc, <<>>)
  /\ UNCHANGED <<workoutPlan, user, scan, regeneratingPlans, rolloverCalls>>

\* 4830..4837 and 4862..4865: no plan; look the user up and start a cold
\* generation when there is scan data, answer 404 otherwise
CD_NoPlanFindUser(p) ==
  /\ pc[p] = "cd_np_user"
  /\ IF user.exists /\ user.latestScan
     THEN Continue(p, "cd_np_gen", req[p], plan[p], user, <<>>)
     ELSE Finish(p)
  /\ UNCHANGED <<workoutPlan, user, scan, regeneratingPlans, requests, rolloverCalls>>

\* 4837, 4858..4861: generateAITrainingPlan returns a plan or throws (500)
CD_NoPlanGenerated(p, out) ==
  /\ pc[p] = "cd_np_gen"
  /\ IF out.ok
     THEN Continue(p, "cd_np_upsert", req[p], plan[p], usr[p], out.days)
     ELSE Finish(p)
  /\ UNCHANGED <<workoutPlan, user, scan, regeneratingPlans, requests, rolloverCalls>>

\* 4840..4854: upsert the generated plan as week 1, keep the returned document
CD_NoPlanUpsert(p) ==
  /\ pc[p] = "cd_np_upsert"
  /\ workoutPlan' = UpsertPlan(workoutPlan, newPlan[p], 1)
  /\ Continue(p, "cd_np_saveuser", req[p], workoutPlan',
              [usr[p] EXCEPT !.weeklyTrainingPlan = AsTrainingPlan(newPlan[p], 0, 0)],
              <<>>)
  /\ UNCHANGED <<user, scan, regeneratingPlans, requests, rolloverCalls>>

\* 4855, then 4871..4915 on the document the upsert returned
CD_NoPlanSaveUser(p) ==
  /\ pc[p] = "cd_np_saveuser"
  /\ user' = SaveUser(user, usr[p], {"weeklyTrainingPlan"})
  /\ CompleteMutate(p, plan[p], req[p])
  /\ UNCHANGED <<workoutPlan, scan, regeneratingPlans, requests, rolloverCalls>>

\* 4912..4915: markModified('weeklyPlan'), markModified('completedHistory'), save
CD_SavePlan(p) ==
  /\ pc[p] = "cd_save"
  /\ workoutPlan' = SavePlan(workoutPlan, plan[p], {"weeklyPlan", "completedHistory"})
  /\ Continue(p, "cd_finduser", req[p], plan[p], usr[p], <<>>)
  /\ UNCHANGED <<user, scan, regeneratingPlans, requests, rolloverCalls>>

\* 4941..4953 and 4985: all days of the loaded copy done => call
\* generateNextWeekPlan, else answer
CompleteCheckWeek(p, u, label) ==
  IF AllDone(plan[p].weeklyPlan)
  THEN /\ rolloverCalls' = CallRollover(plan[p])
       /\ Continue(p, label, req[p], plan[p], u, <<>>)
  ELSE /\ rolloverCalls' = rolloverCalls
       /\ Finish(p)

\* 4922..4935: points for the day, then the user lookup; without a user the
\* handler goes on to the week check
CD_FindUser(p, exerciseCount) ==
  /\ pc[p] = "cd_finduser"
  /\ LET i == FindDay(plan[p].weeklyPlan, req[p].dayNumber)
         count == IF exerciseCount # 0 THEN exerciseCount
                  ELSE ExerciseCount(plan[p].weeklyPlan, i)
     IN IF user.exists
        THEN /\ Continue(p, "cd_saveuser", req[p], plan[p],
                         [user EXCEPT !.mogScore = @ + MogPoints(count),
                                      !.totalWorkouts = @ + 1], <<>>)
             /\ rolloverCalls' = rolloverCalls
        ELSE CompleteCheckWeek(p, NoUserDoc, "cd_gen")
  /\ UNCHANGED <<workoutPlan, user, scan, regeneratingPlans, requests>>

\* 4935: user.save() of the score and the workout count
CD_SaveUser(p) ==
  /\ pc[p] = "cd_saveuser"
  /\ user' = SaveUser(user, usr[p], {"mogScore", "totalWorkouts"})
  /\ CompleteCheckWeek(p, usr[p], "cd_gen")
  /\ UNCHANGED <<workoutPlan, scan, regeneratingPlans, requests>>

\* 4953..4982: generateNextWeekPlan returns the next week's days or throws;
\* a non-empty list replaces the week on the loaded copy
CD_NextWeekGenerated(p, out) ==
  /\ pc[p] = "cd_gen"
  /\ IF out.ok /\ Len(out.days) > 0
     THEN /\ rolloverCalls' = rolloverCalls
          /\ Continue(p, "cd_saveroll", req[p],
                      [plan[p] EXCEPT !.currentWeek = OrOne(@) + 1,
                                      !.weeklyPlan = out.days],
                      usr[p], <<>>)
     ELSE /\ rolloverCalls' = FailRollover(plan[p])
          /\ Finish(p)
  /\ UNCHANGED <<workoutPlan, user, scan, regeneratingPlans, requests>>

\* 4957..4973: save currentWeek, weeklyPlan and weekId; with a user, copy the
\* new week into user.weeklyTrainingPlan
CD_SaveRollover(p) ==
  /\ pc[p] = "cd_saveroll"
  /\ workoutPlan' = SavePlan(workoutPlan, plan[p], {"currentWeek", "weeklyPlan"})
  /\ IF usr[p].exists
     THEN Continue(p, "cd_saveuserplan", req[p], plan[p],
                   [usr[p] EXCEPT !.weeklyTrainingPlan =
                      AsTrainingPlan(plan[p].weeklyPlan, plan[p].currentWeek,
                                     plan[p].currentWeek)], <<>>)
     ELSE Finish(p)
  /\ UNCHANGED <<user, scan, regeneratingPlans, requests, rolloverCalls>>

\* 4972: user.save() of weeklyTrainingPlan
CD_SaveUserPlan(p) ==
  /\ pc[p] = "cd_saveuserplan"
  /\ user' = SaveUser(user, usr[p], {"weeklyTrainingPlan"})
  /\ Finish(p)
  /\ UNCHANGED <<workoutPlan, scan, regeneratingPlans, requests, rolloverCalls>>

\* req.body.exerciseCount; 0 stands for an absent one
ExerciseCountInputs == {0}

\* ------------------------------------- POST /api/training/complete-day
\* 5009..5041: load the plan, mark the day 'done' and push the history entry
\* on the loaded copy; nothing is assigned to a path and markModified is not
\* called
LC_FindPlan(p, n) ==
  /\ Accept(p)
  /\ LET i == FindDay(workoutPlan.weeklyPlan, n)
     IN IF workoutPlan.exists /\ i # 0
        THEN /\ Step(p, "lc_save", DayBody(n),
                     [workoutPlan EXCEPT
                        !.weeklyPlan[i].status = "done",
                        !.completedHistory = Append(@, HistoryEntry(workoutPlan, n))],
                     NoUserDoc, <<>>)
             /\ fromStatus' = [fromStatus EXCEPT ![p] = workoutPlan.weeklyPlan[i].status]
        ELSE Finish(p)
  /\ UNCHANGED <<workoutPlan, user, scan, regeneratingPlans, rolloverCalls>>

\* 5043: plan.save() with no modified path
LC_SavePlan(p) ==
  /\ pc[p] = "lc_save"
  /\ workoutPlan' = SavePlan(workoutPlan, plan[p], {})
  /\ Continue(p, "lc_finduser", req[p], plan[p], usr[p], <<>>)
  /\ UNCHANGED <<user, scan, regeneratingPlans, requests, rolloverCalls>>

\* 5045..5057 and 5063..5071
LC_FindUser(p) ==
  /\ pc[p] = "lc_finduser"
  /\ LET i == FindDay(plan[p].weeklyPlan, req[p].dayNumber)
     IN IF user.exists
        THEN /\ Continue(p, "lc_saveuser", req[p], plan[p],
                         [user EXCEPT
                            !.mogScore = @ + MogPoints(ExerciseCount(plan[p].weeklyPlan, i)),
                            !.totalWorkouts = @ + 1], <<>>)
             /\ rolloverCalls' = rolloverCalls
        ELSE CompleteCheckWeek(p, NoUserDoc, "lc_gen")
  /\ UNCHANGED <<workoutPlan, user, scan, regeneratingPlans, requests>>

\* 5058
LC_SaveUser(p) ==
  /\ pc[p] = "lc_saveuser"
  /\ user' = SaveUser(user, usr[p], {"mogScore", "totalWorkouts"})
  /\ CompleteCheckWeek(p, usr[p], "lc_gen")
  /\ UNCHANGED <<workoutPlan, scan, regeneratingPlans, requests>>

\* 5071..5094: any returned list, the empty one included, replaces the week
LC_NextWeekGenerated(p, out) ==
  /\ pc[p] = "lc_gen"
  /\ IF out.ok
     THEN /\ rolloverCalls' = rolloverCalls
          /\ Continue(p, "lc_saveroll", req[p],
                      [plan[p] EXCEPT !.currentWeek = OrOne(@) + 1,
                                      !.weeklyPlan = out.days],
                      usr[p], <<>>)
     ELSE /\ rolloverCalls' = FailRollover(plan[p])
          /\ Finish(p)
  /\ UNCHANGED <<workoutPlan, user, scan, regeneratingPlans, requests>>

\* 5073..5085
LC_SaveRollover(p) ==
  /\ pc[p] = "lc_saveroll"
  /\ workoutPlan' = SavePlan(workoutPlan, plan[p], {"currentWeek", "weeklyPlan"})
  /\ IF usr[p].exists
     THEN Continue(p, "lc_saveuserplan", req[p], plan[p],
                   [usr[p] EXCEPT !.weeklyTrainingPlan =
                      AsTrainingPlan(plan[p].weeklyPlan, plan[p].currentWeek, 0)], <<>>)
     ELSE Finish(p)
  /\ UNCHANGED <<user, scan, regeneratingPlans, requests, rolloverCalls>>

\* 5086
LC_SaveUserPlan(p) ==
  /\ pc[p] = "lc_saveuserplan"
  /\ user' = SaveUser(user, usr[p], {"weeklyTrainingPlan"})
  /\ Finish(p)
  /\ UNCHANGED <<workoutPlan, scan, regeneratingPlans, requests, rolloverCalls>>

\* --------------------------------------- GET /api/training/:userId/weekly
\* 3949..3958
IsPlanComplete(days) ==
  /\ Len(days) >= CompleteMinDays
  /\ \A i \in DOMAIN days :
       /\ Len(days[i].exercises) > 0
       /\ \A e \in DOMAIN days[i].exercises : days[i].exercises[e] >= CompleteMinSteps

ExpiredEarly(marker) == marker.age >= RegenTimeout

ExpiredLate(marker) == marker.age > RegenTimeout + 1

\* Date.now() - startTime > 120000, in minutes
Expired(marker) == marker.age > RegenTimeout

\* regeneratingPlans.set(userId, Date.now())
NewMarker == [set |-> TRUE, age |-> 0]

\* 3960..3981: the marker check; a live marker ends the request, an expired
\* one is deleted; then WorkoutPlan.findOne is issued
GW_CheckMarker(p) ==
  /\ Accept(p)
  /\ IF regeneratingPlans.set /\ ~Expired(regeneratingPlans)
     THEN /\ Reply(p, "regenerating")
          /\ regeneratingPlans' = regeneratingPlans
     ELSE /\ Continue(p, "gw_findplan", NoBody, NoPlanDoc, NoUserDoc, <<>>)
          /\ regeneratingPlans' = NoMarker
  /\ UNCHANGED <<workoutPlan, user, scan, rolloverCalls>>

\* 3981: WorkoutPlan.findOne answers
GW_FindPlan(p) ==
  /\ pc[p] = "gw_findplan"
  /\ Continue(p, "gw_plan", req[p], workoutPlan, usr[p], <<>>)
  /\ UNCHANGED <<workoutPlan, user, scan, regeneratingPlans, requests, rolloverCalls>>

\* 3982..3995, 4041..4092: a complete plan is returned; an incomplete one sets
\* the marker and looks the user up; without a stored week the handler falls
\* back to the User document
GW_AfterFindPlan(p) ==
  /\ pc[p] = "gw_plan"
  /\ IF plan[p].exists /\ Len(plan[p].weeklyPlan) > 0
     THEN IF IsPlanComplete(plan[p].weeklyPlan)
          THEN /\ Reply(p, "plan")
               /\ regeneratingPlans' = regeneratingPlans
          ELSE /\ Continue(p, "gw_rg_user", req[p], plan[p], usr[p], <<>>)
               /\ regeneratingPlans' = NewMarker
     ELSE /\ Continue(p, "gw_fb_user", req[p], plan[p], usr[p], <<>>)
          /\ regeneratingPlans' = regeneratingPlans
  /\ UNCHANGED <<workoutPlan, user, scan, requests, rolloverCalls>>

\* 3993..3995: User.findOne answers
GW_RegenFindUser(p) ==
  /\ pc[p] = "gw_rg_user"
  /\ Continue(p, "gw_rg_scan", req[p], plan[p], user, <<>>)
  /\ UNCHANGED <<workoutPlan, user, scan, regeneratingPlans, requests, rolloverCalls>>

\* 3998..4004: Scan.findOne answers; with scan data generateAITrainingPlan is
\* called
GW_RegenFindScan(p) ==
  /\ pc[p] = "gw_rg_scan"
  /\ IF (usr[p].exists /\ usr[p].latestScan) \/ scan
     THEN Continue(p, "gw_rg_gen", req[p], plan[p], usr[p], <<>>)
     ELSE Continue(p, "gw_rg_noscan", req[p], plan[p], usr[p], <<>>)
  /\ UNCHANGED <<workoutPlan, user, scan, regeneratingPlans, requests, rolloverCalls>>

\* 4034..4038, 4085: no scan data; the marker is deleted and the stored plan
\* returned
GW_RegenNoScan(p) ==
  /\ pc[p] = "gw_rg_noscan"
  /\ regeneratingPlans' = NoMarker
  /\ Reply(p, "plan")
  /\ UNCHANGED <<workoutPlan, user, scan, requests, rolloverCalls>>

\* 4004..4012 and 4028..4033: the generator returns (the week is replaced on
\* the loaded copy and saved) or throws (the marker is deleted, the stored
\* plan returned)
GW_RegenGenerated(p, out) ==
  /\ pc[p] = "gw_rg_gen"
  /\ IF out.ok
     THEN /\ Continue(p, "gw_rg_save", req[p],
                      [plan[p] EXCEPT !.weeklyPlan = out.days], usr[p], out.days)
          /\ regeneratingPlans' = regeneratingPlans
     ELSE /\ Reply(p, "plan")
          /\ regeneratingPlans' = NoMarker
  /\ UNCHANGED <<workoutPlan, user, scan, requests, rolloverCalls>>

\* 4012..4017: workoutPlan.save() of weeklyPlan, weekId, mission, targets and
\* expectedGain
GW_RegenSavePlan(p) ==
  /\ pc[p] = "gw_rg_save"
  /\ workoutPlan' = SavePlan(workoutPlan, plan[p], {"weeklyPlan"})
  /\ IF usr[p].exists
     THEN Continue(p, "gw_rg_saveuser", req[p], plan[p],
                   [usr[p] EXCEPT !.weeklyTrainingPlan = AsTrainingPlan(newPlan[p], 0, 0)],
                   newPlan[p])
     ELSE Continue(p, "gw_rg_release", req[p], plan[p], usr[p], newPlan[p])
  /\ UNCHANGED <<user, scan, regeneratingPlans, requests, rolloverCalls>>

\* 4017
GW_RegenSaveUser(p) ==
  /\ pc[p] = "gw_rg_saveuser"
  /\ user' = SaveUser(user, usr[p], {"weeklyTrainingPlan"})
  /\ Continue(p, "gw_rg_release", req[p], plan[p], usr[p], newPlan[p])
  /\ UNCHANGED <<workoutPlan, scan, regeneratingPlans, requests, rolloverCalls>>

\* 4020..4027
GW_RegenRelease(p) ==
  /\ pc[p] = "gw_rg_release"
  /\ regeneratingPlans' = NoMarker
  /\ Reply(p, "plan")
  /\ UNCHANGED <<workoutPlan, user, scan, requests, rolloverCalls>>

\* 4092..4094: User.findOne answers
GW_FallbackFindUser(p) ==
  /\ pc[p] = "gw_fb_user"
  /\ Continue(p, "gw_fb_found", req[p], plan[p], user, <<>>)
  /\ UNCHANGED <<workoutPlan, user, scan, regeneratingPlans, requests, rolloverCalls>>

\* 4096..4137 and 4174: no user or nothing to generate from ends the request;
\* an incomplete plan of the user is regenerated without a marker; a user
\* with scan data and no plan sets the marker and generates
GW_AfterFallbackFindUser(p) ==
  /\ pc[p] = "gw_fb_found"
  /\ IF ~usr[p].exists
     THEN /\ Reply(p, "failed")
          /\ regeneratingPlans' = regeneratingPlans
     ELSE IF usr[p].weeklyTrainingPlan.exists
          THEN /\ regeneratingPlans' = regeneratingPlans
               /\ IF ~IsPlanComplete(usr[p].weeklyTrainingPlan.days) /\ usr[p].latestScan
                  THEN Continue(p, "gw_fb_gen", req[p], plan[p], usr[p], <<>>)
                  ELSE Reply(p, "plan")
          ELSE IF usr[p].latestScan
               THEN /\ Continue(p, "gw_np_gen", req[p], plan[p], usr[p], <<>>)
                    /\ regeneratingPlans' = NewMarker
               ELSE /\ Reply(p, "failed")
                    /\ regeneratingPlans' = regeneratingPlans
  /\ UNCHANGED <<workoutPlan, user, scan, requests, rolloverCalls>>

\* 4107..4119
GW_FallbackGenerated(p, out) ==
  /\ pc[p] = "gw_fb_gen"
  /\ IF out.ok
     THEN Continue(p, "gw_fb_saveuser", req[p], plan[p],
                   [usr[p] EXCEPT !.weeklyTrainingPlan = AsTrainingPlan(out.days, 0, 0)],
                   out.days)
     ELSE Reply(p, "plan")
  /\ UNCHANGED <<workoutPlan, user, scan, regeneratingPlans, requests, rolloverCalls>>

\* 4110..4116
GW_FallbackSaveUser(p) ==
  /\ pc[p] = "gw_fb_saveuser"
  /\ user' = SaveUser(user, usr[p], {"weeklyTrainingPlan"})
  /\ Reply(p, "plan")
  /\ UNCHANGED <<workoutPlan, scan, regeneratingPlans, requests, rolloverCalls>>

\* 4136..4140 and 4167..4171
GW_NoPlanGenerated(p, out) ==
  /\ pc[p] = "gw_np_gen"
  /\ IF out.ok
     THEN /\ Continue(p, "gw_np_upsert", req[p], plan[p], usr[p], out.days)
          /\ regeneratingPlans' = regeneratingPlans
     ELSE /\ Reply(p, "failed")
          /\ regeneratingPlans' = NoMarker
  /\ UNCHANGED <<workoutPlan, user, scan, requests, rolloverCalls>>

\* 4140..4156
GW_NoPlanUpsert(p) ==
  /\ pc[p] = "gw_np_upsert"
  /\ workoutPlan' = UpsertPlan(workoutPlan, newPlan[p], 1)
  /\ Continue(p, "gw_np_saveuser", req[p], plan[p],
              [usr[p] EXCEPT !.weeklyTrainingPlan = AsTrainingPlan(newPlan[p], 0, 0)],
              newPlan[p])
  /\ UNCHANGED <<user, scan, regeneratingPlans, requests, rolloverCalls>>

\* 4157
GW_NoPlanSaveUser(p) ==
  /\ pc[p] = "gw_np_saveuser"
  /\ user' = SaveUser(user, usr[p], {"weeklyTrainingPlan"})
  /\ Continue(p, "gw_np_release", req[p], plan[p], usr[p], newPlan[p])
  /\ UNCHANGED <<workoutPlan, scan, regeneratingPlans, requests, rolloverCalls>>

\* 4159..4166
GW_NoPlanRelease(p) ==
  /\ pc[p] = "gw_np_release"
  /\ regeneratingPlans' = NoMarker
  /\ Reply(p, "plan")
  /\ UNCHANGED <<workoutPlan, user, scan, requests, rolloverCalls>>

\* An awaited database call of the handler rejects after the marker was
\* set.  User.findOne (3993) and Scan.findOne (3997) are outside the inner
\* try: the outer catch answers 500 and leaves the marker (4176..4179).
\* workoutPlan.save and user.save (4011, 4016) are inside it: the marker is
\* deleted and the stored plan returned (4028..4033).  On the no-plan path
\* the upsert and user.save (4140, 4157) are inside the try: the marker is
\* deleted and the failure answered (4167..4171)
GW_DatabaseThrows(p) ==
  /\ \/ /\ pc[p] \in {"gw_rg_user", "gw_rg_scan"}
        /\ regeneratingPlans' = regeneratingPlans
        /\ Reply(p, "error")
     \/ /\ pc[p] \in {"gw_rg_save", "gw_rg_saveuser"}
        /\ regeneratingPlans' = NoMarker
        /\ Reply(p, "plan")
     \/ /\ pc[p] \in {"gw_np_upsert", "gw_np_saveuser"}
        /\ regeneratingPlans' = NoMarker
        /\ Reply(p, "failed")
  /\ UNCHANGED <<workoutPlan, user, scan, requests, rolloverCalls>>

\* A minute passes while a marker is set
Tick ==
  /\ regeneratingPlans.set
  /\ ~Expired(regeneratingPlans)
  /\ regeneratingPlans' = [regeneratingPlans EXCEPT !.age = @ + 1]
  /\ UNCHANGED <<workoutPlan, user, scan, pc, req, plan, usr, newPlan, fromStatus,
                 weeklyReply, requests, rolloverCalls, assetVars, scanVars>>

\* ------------------------------------------------- POST /api/scan/analyze
\* 3737..3798: the photos passed the identity check and the analysis; the
\* Scan document is created
SC_CreateScan(p, score, template) ==
  /\ Accept(p)
  /\ scan' = TRUE
  /\ Continue(p, "sc_finduser",
              [NoBody EXCEPT !.score = score, !.plan = AsTrainingPlan(template, 0, 0)],
              NoPlanDoc, NoUserDoc, <<>>)
  /\ UNCHANGED <<workoutPlan, user, regeneratingPlans, rolloverCalls>>

\* 3802..3821
SC_FindUser(p) ==
  /\ pc[p] = "sc_finduser"
  /\ IF user.exists
     THEN Continue(p, "sc_saveuser", req[p], plan[p],
                   [user EXCEPT !.mogScore = req[p].score, !.latestScan = TRUE], <<>>)
     ELSE Continue(p, "sc_template", req[p], plan[p], NoUserDoc, <<>>)
  /\ UNCHANGED <<workoutPlan, user, scan, regeneratingPlans, requests, rolloverCalls>>

\* 3821
SC_SaveUser(p) ==
  /\ pc[p] = "sc_saveuser"
  /\ user' = SaveUser(user, usr[p], {"mogScore", "latestScan"})
  /\ Continue(p, "sc_template", req[p], plan[p], usr[p], <<>>)
  /\ UNCHANGED <<workoutPlan, scan, regeneratingPlans, requests, rolloverCalls>>

\* 3828..3852 and 3888: the template week is upserted, the request answered,
\* and the background task calls generateAITrainingPlan
SC_TemplateUpsert(p) ==
  /\ pc[p] = "sc_template"
  /\ workoutPlan' = UpsertPlan(workoutPlan, req[p].plan.days, 0)
  /\ Continue(p, "sc_bg_gen", NoBody, NoPlanDoc, NoUserDoc, <<>>)
  /\ UNCHANGED <<user, scan, regeneratingPlans, requests, rolloverCalls>>

\* 3852 and 3880..3882
SC_BgGenerated(p, out) ==
  /\ pc[p] = "sc_bg_gen"
  /\ IF out.ok
     THEN Continue(p, "sc_bg_upsert", req[p], plan[p], usr[p], out.days)
     ELSE Finish(p)
  /\ UNCHANGED <<workoutPlan, user, scan, regeneratingPlans, requests, rolloverCalls>>

\* 3855..3868
SC_BgUpsert(p) ==
  /\ pc[p] = "sc_bg_upsert"
  /\ workoutPlan' = UpsertPlan(workoutPlan, newPlan[p], 1)
  /\ Continue(p, "sc_bg_finduser", req[p], plan[p], usr[p], newPlan[p])
  /\ UNCHANGED <<user, scan, regeneratingPlans, requests, rolloverCalls>>

\* 3872..3876
SC_BgFindUser(p) ==
  /\ pc[p] = "sc_bg_finduser"
  /\ IF user.exists
     THEN Continue(p, "sc_bg_saveuser", req[p], plan[p],
                   [user EXCEPT !.weeklyTrainingPlan = AsTrainingPlan(newPlan[p], 0, 0)],
                   <<>>)
     ELSE Finish(p)
  /\ UNCHANGED <<workoutPlan, user, scan, regeneratingPlans, requests, rolloverCalls>>

\* 3877
SC_BgSaveUser(p) ==
  /\ pc[p] = "sc_bg_saveuser"
  /\ user' = SaveUser(user, usr[p], {"weeklyTrainingPlan"})
  /\ Finish(p)
  /\ UNCHANGED <<workoutPlan, scan, regeneratingPlans, requests, rolloverCalls>>

\* -------------------------------------- POST /api/training/:userId/weekly
\* 4190..4196
PW_FindUser(p, clientPlan) ==
  /\ Accept(p)
  /\ IF user.exists
     THEN Continue(p, "pw_findplan", [NoBody EXCEPT !.plan = clientPlan],
                   NoPlanDoc, user, <<>>)
     ELSE Finish(p)
  /\ UNCHANGED <<workoutPlan, user, scan, regeneratingPlans, rolloverCalls>>

\* plan?.currentWeek || plan?.weekNumber || 1
IncomingWeek(clientPlan) ==
  IF clientPlan.currentWeek # 0 THEN clientPlan.currentWeek
  ELSE OrOne(clientPlan.weekNumber)

\* 4199..4213: the overwrite safeguard
PW_FindPlan(p) ==
  /\ pc[p] = "pw_findplan"
  /\ IF workoutPlan.exists /\ OrOne(workoutPlan.currentWeek) > IncomingWeek(req[p].plan)
     THEN Finish(p)
     ELSE Continue(p, "pw_saveuser", req[p], plan[p],
                   [usr[p] EXCEPT !.weeklyTrainingPlan = req[p].plan], <<>>)
  /\ UNCHANGED <<workoutPlan, user, scan, regeneratingPlans, requests, rolloverCalls>>

\* 4214
PW_SaveUser(p) ==
  /\ pc[p] = "pw_saveuser"
  /\ user' = SaveUser(user, usr[p], {"weeklyTrainingPlan"})
  /\ Continue(p, "pw_upsert", req[p], plan[p], usr[p], <<>>)
  /\ UNCHANGED <<workoutPlan, scan, regeneratingPlans, requests, rolloverCalls>>

\* 4217..4231
PW_Upsert(p) ==
  /\ pc[p] = "pw_upsert"
  /\ workoutPlan' = UpsertPlan(workoutPlan, req[p].plan.days, OrOne(req[p].plan.currentWeek))
  /\ Finish(p)
  /\ UNCHANGED <<user, scan, regeneratingPlans, requests, rolloverCalls>>

\* ----------------------------------------- PATCH /api/training/:userId/day
\* 4260..4268 on user.weeklyTrainingPlan.days
SetDayStatus(days, n, status) ==
  LET i == FindDay(days, n)
      k == FindDay(days, n + 1)
      d1 == [days EXCEPT ![i].status = status]
  IN IF status = "done" /\ k # 0 /\ d1[k].status = "upcoming"
     THEN [d1 EXCEPT ![k].status = "today"]
     ELSE d1

\* 4246..4270
PD_FindUser(p, n, status) ==
  /\ Accept(p)
  /\ IF user.exists /\ user.weeklyTrainingPlan.exists
        /\ FindDay(user.weeklyTrainingPlan.days, n) # 0
     THEN Continue(p, "pd_save", [NoBody EXCEPT !.dayNumber = n, !.status = status],
                   NoPlanDoc,
                   [user EXCEPT !.weeklyTrainingPlan.days = SetDayStatus(@, n, status)],
                   <<>>)
     ELSE Finish(p)
  /\ UNCHANGED <<workoutPlan, user, scan, regeneratingPlans, rolloverCalls>>

\* 4270..4274: markModified('weeklyTrainingPlan'), save
PD_SaveUser(p) ==
  /\ pc[p] = "pd_save"
  /\ user' = SaveUser(user, usr[p], {"weeklyTrainingPlan"})
  /\ Finish(p)
  /\ UNCHANGED <<workoutPlan, scan, regeneratingPlans, requests, rolloverCalls>>

\* ------------------------------------ POST /api/training/:userId/generate
\* 4289..4295
GN_FindUser(p) ==
  /\ Accept(p)
  /\ IF user.exists
     THEN Continue(p, "gn_findscan", NoBody, NoPlanDoc, user, <<>>)
     ELSE Finish(p)
  /\ UNCHANGED <<workoutPlan, user, scan, regeneratingPlans, rolloverCalls>>

\* 4298..4324
GN_FindScan(p) ==
  /\ pc[p] = "gn_findscan"
  /\ IF scan
     THEN Continue(p, "gn_gen", req[p], plan[p], usr[p], <<>>)
     ELSE Finish(p)
  /\ UNCHANGED <<workoutPlan, user, scan, regeneratingPlans, requests, rolloverCalls>>

\* 4324..4328 and 4354..4357
GN_Generated(p, out) ==
  /\ pc[p] = "gn_gen"
  /\ IF out.ok
     THEN Continue(p, "gn_saveuser", req[p], plan[p],
                   [usr[p] EXCEPT !.weeklyTrainingPlan = AsTrainingPlan(out.days, 0, 0),
                                  !.latestScan = TRUE], out.days)
     ELSE Finish(p)
  /\ UNCHANGED <<workoutPlan, user, scan, regeneratingPlans, requests, rolloverCalls>>

\* 4329
GN_SaveUser(p) ==
  /\ pc[p] = "gn_saveuser"
  /\ user' = SaveUser(user, usr[p], {"weeklyTrainingPlan", "latestScan"})
  /\ Continue(p, "gn_upsert", req[p], plan[p], usr[p], newPlan[p])
  /\ UNCHANGED <<workoutPlan, scan, regeneratingPlans, requests, rolloverCalls>>

\* 4332..4352
GN_Upsert(p) ==
  /\ pc[p] = "gn_upsert"
  /\ workoutPlan' = UpsertPlan(workoutPlan, newPlan[p], 1)
  /\ Finish(p)
  /\ UNCHANGED <<user, scan, regeneratingPlans, requests, rolloverCalls>>

\* --------------------------------------- POST /api/training/start-session
\* 5120..5132: the day becomes 'today' on the loaded copy; nothing is
\* assigned to a path and markModified is not called
SS_FindPlan(p, n) ==
  /\ Accept(p)
  /\ LET i == FindDay(workoutPlan.weeklyPlan, n)
     IN IF workoutPlan.exists /\ i # 0
        THEN Continue(p, "ss_save", DayBody(n),
                      [workoutPlan EXCEPT !.weeklyPlan[i].status = "today"],
                      NoUserDoc, <<>>)
        ELSE Finish(p)
  /\ UNCHANGED <<workoutPlan, user, scan, regeneratingPlans, rolloverCalls>>

\* 5134..5143: plan.save() with no modified path
SS_SavePlan(p) ==
  /\ pc[p] = "ss_save"
  /\ workoutPlan' = SavePlan(workoutPlan, plan[p], {})
  /\ Finish(p)
  /\ UNCHANGED <<user, scan, regeneratingPlans, requests, rolloverCalls>>

\* ------------------------------------------------- exercise image queue
\* Exercise names are sequences of characters, so that lower-casing and
\* trimming are computed rather than assumed
ToLowerCase(c) ==
  CASE c = "S" -> "s"
    [] c = "Q" -> "q"
    [] c = "R" -> "r"
    [] OTHER -> c

LowerCased(name) == [k \in 1..Len(name) |-> ToLowerCase(name[k])]

RECURSIVE TrimStart(_)
TrimStart(name) ==
  IF name # <<>> /\ Head(name) = " " THEN TrimStart(Tail(name)) ELSE name

RECURSIVE TrimEnd(_)
TrimEnd(name) ==
  IF name # <<>> /\ name[Len(name)] = " "
  THEN TrimEnd(SubSeq(name, 1, Len(name) - 1))
  ELSE name

Trim(name) == TrimEnd(TrimStart(name))

\* The cache key as a name that skips the normalisation
RawKey(exerciseName) == exerciseName

\* exerciseName.toLowerCase().trim()
CacheKey(exerciseName) == Trim(LowerCased(exerciseName))

ExerciseNames == {<<"s", "q">>, <<" ", "S", "Q", " ">>, <<"R", "o", "w">>, <<>>}

ExerciseIds == {1, 2}

\* The keys the cache can hold
CacheKeys == ExerciseNames \cup {CacheKey(name) : name \in ExerciseNames}

Phases == <<"start", "middle", "end">>

PhaseCount == 3

PhaseDelay == 20

ExerciseDelay == 30

TickSeconds == 10

OPENAI_API_KEY == TRUE

\* The provider answers with an image url, answers without one, or the
\* call throws
ProviderOutcomes == {"url", "nourl", "throws"}

NoConsumer ==
  [pc |-> "idle", i |-> 0, exerciseName |-> <<>>, exerciseId |-> 0,
   cacheKey |-> <<>>, images |-> <<>>, timer |-> 0, result |-> "none"]

NoImageReply == [status |-> 0, exerciseName |-> <<>>, images |-> <<>>, source |-> "none"]

\* generatePlanForUser is not running
NoJob == [pc |-> "idle", days |-> <<>>, i |-> 0, exercise |-> 0]

AssetsIdle ==
  /\ aiImageCache = [k \in CacheKeys |-> <<>>]
  /\ backgroundImageQueue = <<>>
  /\ isProcessingBackgroundQueue = FALSE
  /\ consumer = NoConsumer
  /\ sinceCall = ExerciseDelay
  /\ imageReply = NoImageReply
  /\ imageRequests = 0
  /\ drainLoops = 0
  /\ providerCalls = 0
  /\ processingUsers = FALSE
  /\ job = NoJob
  /\ jobRuns = 0

\* A cache whose has() never answers true
NeverHas(cache, key) == FALSE

Has(cache, key) == key \in DOMAIN cache /\ cache[key] # <<>>

\* The loop of processBackgroundQueue shifts entries until one is not cached
RECURSIVE NextUncached(_, _)
NextUncached(queue, cache) ==
  IF queue = <<>> THEN <<>>
  ELSE IF Has(cache, CacheKey(Head(queue).exerciseName))
       THEN NextUncached(Tail(queue), cache)
       ELSE queue

\* generateAIImagesForExercise up to its first provider call
Generating(entry) ==
  [pc |-> "fetch", i |-> 0,
   exerciseName |-> entry.exerciseName, exerciseId |-> entry.exerciseId,
   cacheKey |-> CacheKey(entry.exerciseName), images |-> <<>>, timer |-> 0, result |-> "none"]

\* processBackgroundQueue from the top of its loop to its next await or its
\* end; running counts the invocations that have not ended, this one included
LoopTop(queue, cache, running) ==
  LET rest == NextUncached(queue, cache) IN
    IF rest = <<>>
    THEN /\ backgroundImageQueue' = <<>>
         /\ isProcessingBackgroundQueue' = FALSE
         /\ consumer' = NoConsumer
         /\ drainLoops' = running - 1
         /\ providerCalls' = providerCalls
    ELSE /\ backgroundImageQueue' = Tail(rest)
         /\ isProcessingBackgroundQueue' = TRUE
         /\ consumer' = Generating(Head(rest))
         /\ drainLoops' = running
         /\ providerCalls' = providerCalls + 1

\* A loop that stops after a generation without clearing the flag
LoopHangs(result) ==
  /\ consumer' = [NoConsumer EXCEPT !.result = result]
  /\ UNCHANGED <<backgroundImageQueue, isProcessingBackgroundQueue, drainLoops>>

\* processBackgroundQueue after generateAIImagesForExercise returned result
\* ("images" or "null")
AfterGeneration(result) ==
  IF backgroundImageQueue # <<>>
  THEN /\ consumer' = [NoConsumer EXCEPT !.pc = "exercise_wait", !.timer = ExerciseDelay,
                                         !.result = result]
       /\ UNCHANGED <<backgroundImageQueue, isProcessingBackgroundQueue, drainLoops>>
  ELSE /\ consumer' = [NoConsumer EXCEPT !.result = result]
       /\ isProcessingBackgroundQueue' = FALSE
       /\ drainLoops' = drainLoops - 1
       /\ UNCHANGED backgroundImageQueue

\* A failed phase whose images so far are cached all the same
PartialCached ==
  /\ aiImageCache' = [aiImageCache EXCEPT ![consumer.cacheKey] = consumer.images]
  /\ AfterGeneration("null")

\* A phase without an image url, or a throw: return null, nothing is cached
PhaseFailed ==
  /\ UNCHANGED aiImageCache
  /\ AfterGeneration("null")

AlreadyQueued(queue, cacheKey) ==
  \E k \in 1..Len(queue) : CacheKey(queue[k].exerciseName) = cacheKey

\* A guard that does not look at the flag
IgnoresFlag(processing, queue) == queue = <<>>

\* The first line of processBackgroundQueue: the call returns at once
ReturnsAtOnce(processing, queue) == processing \/ queue = <<>>

\* POST /api/workout/generate-exercise-image
GenerateExerciseImage(exerciseName, exerciseId) ==
  LET cacheKey == CacheKey(exerciseName)
      queued == Append(backgroundImageQueue,
                       [exerciseName |-> exerciseName, exerciseId |-> exerciseId])
  IN
    /\ imageRequests' = imageRequests + 1
    /\ UNCHANGED <<planVars, scanVars, jobVars, aiImageCache, sinceCall>>
    /\ IF exerciseName = <<>>
       THEN /\ imageReply' = [NoImageReply EXCEPT !.status = 400]
            /\ UNCHANGED <<backgroundImageQueue, isProcessingBackgroundQueue, consumer,
                           drainLoops, providerCalls>>
       ELSE IF Has(aiImageCache, cacheKey)
       THEN /\ imageReply' = [status |-> 200, exerciseName |-> exerciseName,
                              images |-> aiImageCache[cacheKey],
                              source |-> "ai-cached"]
            /\ UNCHANGED <<backgroundImageQueue, isProcessingBackgroundQueue, consumer,
                           drainLoops, providerCalls>>
       ELSE /\ imageReply' = [status |-> 200, exerciseName |-> exerciseName, images |-> <<>>,
                              source |-> "stock"]
            /\ IF OPENAI_API_KEY /\ ~AlreadyQueued(backgroundImageQueue, cacheKey)
               THEN IF ReturnsAtOnce(isProcessingBackgroundQueue, queued)
                    THEN /\ backgroundImageQueue' = queued
                         /\ UNCHANGED <<isProcessingBackgroundQueue, consumer,
                                        drainLoops, providerCalls>>
                    ELSE LoopTop(queued, aiImageCache, drainLoops + 1)
               ELSE UNCHANGED <<backgroundImageQueue, isProcessingBackgroundQueue,
                                consumer, drainLoops, providerCalls>>

\* POST /api/admin/clear-image-cache
ClearImageCache ==
  /\ imageRequests' = imageRequests + 1
  /\ aiImageCache' = [k \in CacheKeys |-> <<>>]
  /\ backgroundImageQueue' = <<>>
  /\ imageReply' = [NoImageReply EXCEPT !.status = 200, !.source = "cleared"]
  /\ UNCHANGED <<planVars, scanVars, jobVars, isProcessingBackgroundQueue, consumer,
                 sinceCall, drainLoops, providerCalls>>

\* The provider call of the current phase ends
ProviderReplies(outcome) ==
  LET images == Append(consumer.images,
                       [id |-> <<consumer.exerciseId, consumer.i + 1>>,
                        phase |-> Phases[consumer.i + 1]])
  IN
    /\ consumer.pc = "fetch"
    /\ sinceCall' = 0
    /\ providerCalls' = providerCalls - 1
    /\ UNCHANGED <<planVars, scanVars, jobVars, imageReply, imageRequests>>
    /\ IF outcome = "url"
       THEN IF consumer.i < PhaseCount - 1
            THEN /\ consumer' = [consumer EXCEPT !.pc = "phase_wait", !.images = images,
                                                 !.timer = PhaseDelay]
                 /\ UNCHANGED <<aiImageCache, backgroundImageQueue,
                                isProcessingBackgroundQueue, drainLoops>>
            ELSE /\ aiImageCache' =
                      IF Len(images) = PhaseCount
                      THEN [aiImageCache EXCEPT ![consumer.cacheKey] = images]
                      ELSE aiImageCache
                 /\ AfterGeneration("images")
       ELSE PhaseFailed

\* The wait between two phases is over: the next phase's call starts
NextPhase ==
  /\ consumer.pc = "phase_wait"
  /\ consumer.timer = 0
  /\ consumer' = [consumer EXCEPT !.pc = "fetch", !.i = consumer.i + 1]
  /\ providerCalls' = providerCalls + 1
  /\ UNCHANGED <<planVars, scanVars, jobVars, aiImageCache, backgroundImageQueue,
                 isProcessingBackgroundQueue, sinceCall, imageReply, imageRequests,
                 drainLoops>>

\* The wait between two exercises is over: the loop goes on
NextExercise ==
  /\ consumer.pc = "exercise_wait"
  /\ consumer.timer = 0
  /\ LoopTop(backgroundImageQueue, aiImageCache, drainLoops)
  /\ UNCHANGED <<planVars, scanVars, jobVars, aiImageCache, sinceCall, imageReply,
                 imageRequests>>

Min(a, b) == IF a < b THEN a ELSE b

Max(a, b) == IF a > b THEN a ELSE b

\* Time passes
Elapse ==
  /\ sinceCall < ExerciseDelay \/ consumer.timer > 0
  /\ sinceCall' = Min(sinceCall + TickSeconds, ExerciseDelay)
  /\ consumer' = [consumer EXCEPT !.timer = Max(consumer.timer - TickSeconds, 0)]
  /\ UNCHANGED <<planVars, scanVars, jobVars, aiImageCache, backgroundImageQueue,
                 isProcessingBackgroundQueue, imageReply, imageRequests, drainLoops,
                 providerCalls>>

\* ------------------------------------------------------- physique analysis
\* JavaScript values of a parsed provider answer: undefined, null, a number
\* or an array of muscle names
Undefined == [n |-> 0, t |-> "undefined", items |-> <<>>]

Null == [n |-> 0, t |-> "null", items |-> <<>>]

Num(n) == [n |-> n, t |-> "number", items |-> <<>>]

Arr(items) == [n |-> 0, t |-> "array", items |-> items]

\* x || d
OrDefault(x, d) ==
  IF x.t \in {"undefined", "null"} \/ (x.t = "number" /\ x.n = 0) THEN d ELSE x

\* x ?? null
OrNull(x) == IF x.t \in {"undefined", "null"} THEN Null ELSE x

\* The tiers in the opposite order
AscendingTiers ==
  << [name |-> "Gym Bro", minScore |-> 0],
     [name |-> "Low-Tier Normie", minScore |-> 35],
     [name |-> "Normie", minScore |-> 45],
     [name |-> "High-Tier Normie", minScore |-> 55],
     [name |-> "Chadlite", minScore |-> 68],
     [name |-> "Chad", minScore |-> 78],
     [name |-> "Gigachad", minScore |-> 88],
     [name |-> "Mogger", minScore |-> 93],
     [name |-> "Final Boss Mogger", minScore |-> 97] >>

TIERS ==
  << [name |-> "Final Boss Mogger", minScore |-> 97],
     [name |-> "Mogger", minScore |-> 93],
     [name |-> "Gigachad", minScore |-> 88],
     [name |-> "Chad", minScore |-> 78],
     [name |-> "Chadlite", minScore |-> 68],
     [name |-> "High-Tier Normie", minScore |-> 55],
     [name |-> "Normie", minScore |-> 45],
     [name |-> "Low-Tier Normie", minScore |-> 35],
     [name |-> "Gym Bro", minScore |-> 0] >>

\* for (const tier of TIERS) if (score >= tier.minScore) return tier.name
RECURSIVE FirstTier(_, _)
FirstTier(list, score) ==
  IF list = <<>> THEN "Gym Bro"
  ELSE IF score >= Head(list).minScore THEN Head(list).name
       ELSE FirstTier(Tail(list), score)

getTierFromScore(score) == FirstTier(TIERS, score)

\* A clamp whose upper end is 90
ClampTo90(n) == Max(0, Min(90, n))

\* A clamp that adds one first
OffByOne(n) == Max(0, Min(100, n + 1))

\* Math.max(0, Math.min(100, n))
Clamp(n) == Max(0, Min(100, n))

Muscles == {"chest", "shoulders", "back", "arms", "legs", "core", "leanness"}

\* The parsed answer of the provider; isValidPhysique is "true", "false" or
\* "undefined", tier is a tier name or "undefined"
Payload(valid, score, tier, breakdown, notVisible, weak, strong, symmetry) ==
  [mogScore |-> score, weakPoints |-> weak, tier |-> tier,
   notVisible |-> notVisible, symmetry |-> symmetry,
   isValidPhysique |-> valid, muscleBreakdown |-> breakdown, strongPoints |-> strong,
   errorMessage |-> "undefined", aiPowered |-> "undefined"]

\* The normalization step of analyzePhysiqueWithAI
normalizedAnalysis(raw) ==
  [mogScore |-> Num(Clamp(OrDefault(raw.mogScore, Num(50)).n)),
   weakPoints |-> OrDefault(raw.weakPoints, Arr(<<>>)),
   tier |-> getTierFromScore(OrDefault(raw.mogScore, Num(50)).n),
   notVisible |-> OrDefault(raw.notVisible, Arr(<<>>)),
   symmetry |-> OrDefault(raw.symmetry, Num(70)),
   isValidPhysique |-> "true",
   muscleBreakdown |-> [m \in Muscles |-> OrNull(raw.muscleBreakdown[m])],
   strongPoints |-> OrDefault(raw.strongPoints, Arr(<<>>)),
   errorMessage |-> "undefined",
   aiPowered |-> "true"]

\* The answer for a payload with isValidPhysique === false
InvalidPhysique(raw) ==
  [isValidPhysique |-> "false",
   errorMessage |-> IF raw.errorMessage = "undefined"
                    THEN "Please upload a clear photo" ELSE raw.errorMessage]

MuscleOrder == <<"chest", "shoulders", "back", "arms", "legs", "core", "leanness">>

\* Array.prototype.sort((a, b) => a[1] - b[1]) of the breakdown's entries: a
\* stable insertion sort
RECURSIVE Insert(_, _, _)
Insert(m, sorted, breakdown) ==
  IF sorted = <<>> THEN <<m>>
  ELSE IF breakdown[m].n < breakdown[Head(sorted)].n THEN <<m>> \o sorted
       ELSE <<Head(sorted)>> \o Insert(m, Tail(sorted), breakdown)

RECURSIVE SortedEntries(_, _)
SortedEntries(k, breakdown) ==
  IF k = 0 THEN <<>>
  ELSE Insert(MuscleOrder[k], SortedEntries(k - 1, breakdown), breakdown)

\* The lower end of Math.floor(base + Math.random() * width) for each muscle
SimulatedBase(m) ==
  CASE m = "legs" -> 40
    [] m = "core" -> 45
    [] OTHER -> 50

SimulatedWidth(m) == IF m = "leanness" THEN 35 ELSE 40

\* Math.random() is drawn at the two ends of its range
SimulatedBreakdowns ==
  { [m \in Muscles |-> Num(SimulatedBase(m))],
    [m \in Muscles |-> Num(SimulatedBase(m) + SimulatedWidth(m) - 1)] }

\* 40 + (experienceBonus[trainingExperience] || 10) + Math.floor(Math.random() * 20) - 10
SimulatedBaseScores == {40 + bonus + draw : bonus \in {5, 10, 45}, draw \in {-10, 9}}

\* simulatePhysiqueAnalysis
simulatePhysiqueAnalysis ==
  { [Payload("true", Num(Max(20, Min(95, baseScore))),
             getTierFromScore(Max(20, Min(95, baseScore))), breakdown, Undefined,
             Arr(SubSeq(SortedEntries(7, breakdown), 1, 2)),
             Arr(SubSeq(SortedEntries(7, breakdown), 6, 7)),
             Num(symmetry))
       EXCEPT !.aiPowered = "false"] :
      baseScore \in SimulatedBaseScores, breakdown \in SimulatedBreakdowns,
      symmetry \in {60, 89} }

\* What the analysis provider can answer: a parsed JSON object, content that
\* JSON.parse rejects, no content, an HTTP error, or fetch throws
Answer(kind, raw) == [analysis |-> raw, kind |-> kind]

NoPayload ==
  Payload("undefined", Undefined, "undefined", [m \in Muscles |-> Undefined],
          Undefined, Undefined, Undefined, Undefined)

ScoreInputs == (0 - ScoreMargin) .. (100 + ScoreMargin)

FullBreakdown == [m \in Muscles |-> Num(60)]

MuscleValues == {Undefined, Null, Num(0 - 5), Num(60), Num(150)}

BreakdownInputs ==
  {[m \in Muscles |-> Undefined]} \cup
  { [FullBreakdown EXCEPT !["chest"] = chest, !["legs"] = legs] :
      chest \in MuscleValues, legs \in {Null, Num(60)} }

\* Payloads that vary the score and the provider's tier
ScorePayloads ==
  { Payload("true", score, tier, FullBreakdown, Arr(<<>>), Arr(weak),
            Arr(<<"chest", "arms">>), Num(70)) :
      score \in {Undefined} \cup {Num(n) : n \in ScoreInputs},
      tier \in {"undefined", "Chad"},
      weak \in {<<"legs", "back">>, <<"core", "legs">>} }

\* Payloads that vary the other fields
FieldPayloads ==
  { Payload(valid, Num(50), "Normie", breakdown, notVisible, weak,
            Arr(<<"chest", "arms">>), symmetry) :
      valid \in {"true", "false", "undefined"},
      breakdown \in BreakdownInputs,
      notVisible \in {Undefined, Arr(<<>>), Arr(<<"chest">>)},
      weak \in {Undefined, Arr(<<"legs", "back">>)},
      symmetry \in {Undefined, Num(0), Num(70), Num(150), Num(0 - 5)} }

Answers ==
  {Answer("json", raw) : raw \in ScorePayloads \cup FieldPayloads} \cup
  {Answer(kind, NoPayload) : kind \in {"unparsable", "nocontent", "notok", "throws"}}

\* analyzePhysiqueWithAI once the provider has answered
analyzePhysiqueWithAI(answer) ==
  IF answer.kind # "json" THEN simulatePhysiqueAnalysis
  ELSE IF answer.analysis.isValidPhysique = "false"
       THEN {InvalidPhysique(answer.analysis)}
       ELSE {normalizedAnalysis(answer.analysis)}

\* What the identity provider can answer: a verdict with isSamePerson true,
\* false or missing, content that JSON.parse rejects, or the call throws
Verdicts == {"true", "false", "undefined", "unparsable", "throws"}

\* verifyUserIdentity once the provider has answered
verifyUserIdentity(verdict) ==
  IF verdict \in {"unparsable", "throws"}
  THEN [error |-> TRUE, isSamePerson |-> "true"]
  ELSE [error |-> FALSE, isSamePerson |-> verdict]

NoIdentityCheck == [error |-> FALSE, isSamePerson |-> "none"]

NoAnalysis == [isValidPhysique |-> "none"]

NoScanReply == [status |-> 0, differentUser |-> FALSE]

ScanIdle ==
  /\ scanPc = "idle"
  /\ previousScan = FALSE
  /\ identityAnswer = "none"
  /\ identityCheck = NoIdentityCheck
  /\ providerAnswer = Answer("none", NoPayload)
  /\ analysis = NoAnalysis
  /\ reanalysis = NoAnalysis
  /\ scanReply = NoScanReply

TierIdle ==
  /\ scores = <<0, 0>>
  /\ tiers = <<"none", "none">>

\* POST /api/scan/analyze up to Scan.findOne
SA_Accept ==
  /\ scanPc = "idle"
  /\ scanPc' = "findPrevious"
  /\ UNCHANGED <<planVars, assetVars, previousScan, identityAnswer, identityCheck,
                 providerAnswer, analysis, reanalysis, scanReply, scores, tiers>>

\* Scan.findOne answered: with a previous front photo the identity provider
\* is called, else the analysis provider
SA_FoundPrevious(previous) ==
  /\ scanPc = "findPrevious"
  /\ previous => scan
  /\ previousScan' = previous
  /\ scanPc' = IF previous THEN "verify" ELSE "analyze"
  /\ UNCHANGED <<planVars, assetVars, identityAnswer, identityCheck, providerAnswer,
                 analysis, reanalysis, scanReply, scores, tiers>>

\* verifyUserIdentity returned: 400 if !identityCheck.isSamePerson
SA_Verified(verdict) ==
  LET check == verifyUserIdentity(verdict) IN
    /\ scanPc = "verify"
    /\ identityAnswer' = verdict
    /\ identityCheck' = check
    /\ IF check.isSamePerson # "true"
       THEN /\ scanPc' = "done"
            /\ scanReply' = [status |-> 400, differentUser |-> TRUE]
       ELSE /\ scanPc' = "analyze"
            /\ UNCHANGED scanReply
    /\ UNCHANGED <<planVars, assetVars, previousScan, providerAnswer, analysis,
                   reanalysis, scores, tiers>>

\* A check that rejects no analysis
NeverRejected(result) == FALSE

\* analysis.isValidPhysique === false
Rejected(result) == result.isValidPhysique = "false"

\* analyzePhysiqueWithAI returned: 400 if analysis.isValidPhysique === false,
\* else the handler goes on to store the scan
SA_Analyzed(answer, result) ==
  /\ scanPc = "analyze"
  /\ result \in analyzePhysiqueWithAI(answer)
  /\ providerAnswer' = answer
  /\ analysis' = result
  /\ IF Rejected(result)
     THEN /\ scanPc' = "done"
          /\ scanReply' = [status |-> 400, differentUser |-> FALSE]
     ELSE /\ scanPc' = "valid"
          /\ UNCHANGED scanReply
  /\ UNCHANGED <<planVars, assetVars, previousScan, identityAnswer, identityCheck,
                 reanalysis, scores, tiers>>

\* The normalization step applied to the analysis it produced
Renormalize ==
  /\ scanPc = "valid"
  /\ analysis.isValidPhysique = "true"
  /\ analysis.aiPowered = "true"
  /\ reanalysis = NoAnalysis
  /\ reanalysis' = normalizedAnalysis(analysis)
  /\ UNCHANGED <<planVars, assetVars, scanPc, previousScan, identityAnswer,
                 identityCheck, providerAnswer, analysis, scanReply, scores, tiers>>

\* analysis.mogScore as the User document holds it, in hundredths
ScoreOf(result) ==
  IF "mogScore" \in DOMAIN result THEN result.mogScore.n * 100 ELSE 0

\* const { weakPoints = ['legs', 'back'] } = scanResults
WeakPointsOf(result) ==
  IF "weakPoints" \in DOMAIN result /\ result.weakPoints.t = "array"
  THEN result.weakPoints.items
  ELSE <<"legs", "back">>

\* The handler goes on with the valid analysis: Scan.create, then the user
\* and the template week as in SC_FindUser and the actions after it
SA_Store(p) ==
  /\ scanPc = "valid"
  /\ requests = 0
  /\ SC_CreateScan(p, ScoreOf(analysis),
                   GenerateWorkoutPlan(MaxDays, "full-gym", WeakPointsOf(analysis)))

\* getTierFromScore applied to the score in slot k
ApplyTier(k) ==
  /\ tiers[k] = "none"
  /\ tiers' = [tiers EXCEPT ![k] = getTierFromScore(scores[k])]
  /\ UNCHANGED <<planVars, assetVars, scanPc, previousScan, identityAnswer,
                 identityCheck, providerAnswer, analysis, reanalysis, scanReply, scores>>

\* ------------------------------------------- background plan generation
\* What generateAITrainingPlan destructures from the user id string that
\* generatePlanForUser passes as scanData: a string has none of the fields
UserIdFields == [weakPoints |-> Undefined, strongPoints |-> Undefined]

\* generateAITrainingPlan before its try block: the prompt is built with
\* weakPoints.join and strongPoints.join, which throw on a value that is
\* not an array
NeverThrows(scanData) == FALSE

PromptThrows(scanData) ==
  scanData.weakPoints.t # "array" \/ scanData.strongPoints.t # "array"

\* The exercises of day 1 that get images: weeklyPlan[0].exercises.slice(0, 2)
PregenLimit == 2

Pregenerated(days) ==
  IF days = <<>> THEN 0 ELSE Min(Len(days[1].exercises), PregenLimit)

\* What the provider may answer to the plan request of a run
JobRaws == RawPlansOf({0, 1}, {<<>>, <<3>>})

\* The end of generatePlanForUser: processingUsers.delete(userId)
JobEnds ==
  /\ processingUsers' = FALSE
  /\ job' = NoJob

\* POST /api/admin/generate-plan/:userId up to the first await of the
\* generatePlanForUser it starts
AdminGeneratePlan ==
  /\ jobRuns' = jobRuns + 1
  /\ IF user.exists /\ ~processingUsers
     THEN /\ processingUsers' = TRUE
          /\ job' = [NoJob EXCEPT !.pc = "findplan"]
     ELSE UNCHANGED <<processingUsers, job>>
  /\ UNCHANGED <<planVars, scanVars, aiImageCache, backgroundImageQueue,
                 isProcessingBackgroundQueue, consumer, sinceCall, imageReply,
                 imageRequests, drainLoops, providerCalls>>

\* generatePlanForUser after WorkoutPlan.findOne
J_AfterFindPlan ==
  /\ job.pc = "findplan"
  /\ IF workoutPlan.exists /\ Len(workoutPlan.weeklyPlan) > 0
     THEN JobEnds
     ELSE /\ job' = [job EXCEPT !.pc = "onboarding"]
          /\ UNCHANGED processingUsers
  /\ UNCHANGED <<planVars, scanVars, aiImageCache, backgroundImageQueue,
                 isProcessingBackgroundQueue, consumer, sinceCall, imageReply,
                 imageRequests, drainLoops, providerCalls, jobRuns>>

\* generatePlanForUser after Onboarding.findOne
J_AfterOnboarding ==
  /\ job.pc = "onboarding"
  /\ job' = [job EXCEPT !.pc = "scan"]
  /\ UNCHANGED <<planVars, scanVars, aiImageCache, backgroundImageQueue,
                 isProcessingBackgroundQueue, consumer, sinceCall, imageReply,
                 imageRequests, drainLoops, providerCalls, jobRuns,
                 processingUsers>>

\* The first provider call of generateExerciseImagesForBackground for the
\* n-th exercise of day 1
JobFetches(n) ==
  /\ job' = [job EXCEPT !.pc = "image_fetch", !.exercise = n, !.i = 0]
  /\ providerCalls' = providerCalls + 1
  /\ UNCHANGED processingUsers

\* generatePlanForUser from the answer of Scan.findOne to its end.
\* generateAITrainingPlan is called with the user id: it throws before its
\* first await, the catch logs and the finally block ends the run.  Had the
\* call returned a plan, the plan would be upserted and images would be
\* requested for the first exercises of day 1: three provider calls each,
\* 15 s apart, and 45 s between two exercises
J_FromFindScan ==
  /\ \/ /\ job.pc = "scan"
        /\ IF PromptThrows(UserIdFields)
           THEN JobEnds
           ELSE /\ job' = [job EXCEPT !.pc = "generating"]
                /\ UNCHANGED processingUsers
        /\ UNCHANGED <<workoutPlan, providerCalls, sinceCall>>
     \/ /\ job.pc = "generating"
        /\ \E out \in AIPlanOutcomes(JobRaws) :
             IF out.ok
             THEN /\ job' = [job EXCEPT !.pc = "upsert", !.days = out.days]
                  /\ UNCHANGED processingUsers
             ELSE JobEnds
        /\ UNCHANGED <<workoutPlan, providerCalls, sinceCall>>
     \/ /\ job.pc = "upsert"
        /\ workoutPlan' = UpsertPlan(workoutPlan, job.days, 0)
        /\ IF OPENAI_API_KEY /\ Pregenerated(job.days) > 0
           THEN JobFetches(1)
           ELSE JobEnds /\ UNCHANGED providerCalls
        /\ UNCHANGED sinceCall
     \/ /\ job.pc = "image_fetch"
        /\ sinceCall' = 0
        /\ \E outcome \in ProviderOutcomes :
             IF job.i = PhaseCount - 1
             THEN /\ job' = [job EXCEPT !.pc = "exercise_wait"]
                  /\ providerCalls' = providerCalls - 1
             ELSE IF outcome = "throws"
             THEN /\ job' = [job EXCEPT !.i = job.i + 1]
                  /\ UNCHANGED providerCalls
             ELSE /\ job' = [job EXCEPT !.pc = "image_wait"]
                  /\ providerCalls' = providerCalls - 1
        /\ UNCHANGED <<workoutPlan, processingUsers>>
     \/ /\ job.pc = "image_wait"
        /\ job' = [job EXCEPT !.pc = "image_fetch", !.i = job.i + 1]
        /\ providerCalls' = providerCalls + 1
        /\ UNCHANGED <<workoutPlan, processingUsers, sinceCall>>
     \/ /\ job.pc = "exercise_wait"
        /\ IF job.exercise < Pregenerated(job.days)
           THEN JobFetches(job.exercise + 1)
           ELSE JobEnds /\ UNCHANGED providerCalls
        /\ UNCHANGED <<workoutPlan, sinceCall>>
  /\ UNCHANGED <<user, scan, regeneratingPlans, pc, req, plan, usr, newPlan,
                 fromStatus, weeklyReply, requests, rolloverCalls, scanVars,
                 aiImageCache, backgroundImageQueue, isProcessingBackgroundQueue,
                 consumer, imageReply, imageRequests, drainLoops, jobRuns>>

\* ------------------------------------------------------- specifications
IdleRequests ==
  /\ pc = [p \in Procs |-> "idle"]
  /\ req = [p \in Procs |-> NoBody]
  /\ plan = [p \in Procs |-> NoPlanDoc]
  /\ usr = [p \in Procs |-> NoUserDoc]
  /\ newPlan = [p \in Procs |-> <<>>]
  /\ fromStatus = [p \in Procs |-> "none"]
  /\ weeklyReply = "none"
  /\ requests = 0
  /\ rolloverCalls = [w \in Weeks |-> 0]
  /\ regeneratingPlans = NoMarker
  /\ AssetsIdle
  /\ ScanIdle

IdleLocals ==
  /\ IdleRequests
  /\ TierIdle

\* The concurrent specifications accept MaxRequests requests, the
\* specification of all handlers MaxSeqRequests
Open == requests < MaxRequests

OpenSeq == requests < MaxSeqRequests

RegisteredUser == [NoUserDoc EXCEPT !.exists = TRUE]

ScannedUser(score, days) ==
  [exists |-> TRUE, mogScore |-> score, totalWorkouts |-> 0, latestScan |-> TRUE,
   weeklyTrainingPlan |-> AsTrainingPlan(days, 0, 0)]

\* analysis.mogScore of a scan, in hundredths
ScanScores == {5000, 10000}

\* -- Spec: every handler.  One slot serves the requests one at a time; the
\* store starts with a registered user without scan or plan, or with that
\* user's first scan suspended in another slot, so that the scan and its
\* background generation overlap the requests that follow
Sequential == {CHOOSE p \in Procs : TRUE}

\* Provider answers: an empty or short week or a week of CompleteMinDays days, whose
\* days have no exercise or one exercise with 2 steps
SeqRaws == RawPlansOf({0, 1, CompleteMinDays}, {<<>>, <<2>>})

\* onboardingData.trainingDaysPerWeek and analysis.weakPoints of a scan
TrainingDayInputs == {MaxDays}

WeakPointInputs == {<<"legs", "back">>, <<"core", "abs">>}

Templates ==
  { GenerateWorkoutPlan(d, "full-gym", w) : d \in TrainingDayInputs, w \in WeakPointInputs }

\* Plans a client posts: a week with or without exercises, with and without
\* currentWeek
ClientPlans ==
  { AsTrainingPlan(RepairDays(r), w, 2) :
      r \in RawPlansOf({CompleteMinDays}, {<<>>, <<2>>}), w \in {0, 2} }

DayStatusInputs == {"today", "done"}

\* A scan suspended at the upsert of its template week (3830): the Scan
\* document is created and the user saved with the scan data
ScanInFlight(p, score, template) ==
  /\ pc = [q \in Procs |-> IF q = p THEN "sc_template" ELSE "idle"]
  /\ req = [q \in Procs |->
              IF q = p
              THEN [NoBody EXCEPT !.score = score, !.plan = AsTrainingPlan(template, 0, 0)]
              ELSE NoBody]
  /\ plan = [q \in Procs |-> NoPlanDoc]
  /\ usr = [q \in Procs |->
              IF q = p
              THEN [RegisteredUser EXCEPT !.mogScore = score, !.latestScan = TRUE]
              ELSE NoUserDoc]
  /\ newPlan = [q \in Procs |-> <<>>]
  /\ fromStatus = [q \in Procs |-> "none"]
  /\ weeklyReply = "none"
  /\ requests = 1
  /\ rolloverCalls = [w \in Weeks |-> 0]
  /\ regeneratingPlans = NoMarker
  /\ AssetsIdle
  /\ ScanIdle
  /\ TierIdle
  /\ scan = TRUE
  /\ workoutPlan = NoPlanDoc
  /\ user = [RegisteredUser EXCEPT !.mogScore = score, !.latestScan = TRUE]

FirstTemplate == GenerateWorkoutPlan(MaxDays, "full-gym", <<"legs", "back">>)

Init ==
  \/ /\ IdleLocals
     /\ scan = FALSE
     /\ workoutPlan = NoPlanDoc
     /\ user = RegisteredUser
  \/ \E p \in Procs \ Sequential, score \in ScanScores :
       ScanInFlight(p, score, FirstTemplate)

Scans ==
  \E p \in Procs :
    \/ \E score \in ScanScores, t \in Templates :
         OpenSeq /\ p \in Sequential /\ SC_CreateScan(p, score, t)
    \/ SC_FindUser(p)
    \/ SC_SaveUser(p)
    \/ SC_TemplateUpsert(p)
    \/ \E out \in AIPlanOutcomes(SeqRaws) : SC_BgGenerated(p, out)
    \/ SC_BgUpsert(p)
    \/ SC_BgFindUser(p)
    \/ SC_BgSaveUser(p)

Others ==
  \E p \in Sequential :
    \/ OpenSeq /\ GW_CheckMarker(p)
    \/ GW_FindPlan(p)
    \/ GW_AfterFindPlan(p)
    \/ GW_RegenFindUser(p)
    \/ GW_RegenFindScan(p)
    \/ GW_RegenNoScan(p)
    \/ \E out \in AIPlanOutcomes(SeqRaws) : GW_RegenGenerated(p, out)
    \/ GW_RegenSavePlan(p)
    \/ GW_RegenSaveUser(p)
    \/ GW_RegenRelease(p)
    \/ GW_FallbackFindUser(p)
    \/ GW_AfterFallbackFindUser(p)
    \/ \E out \in AIPlanOutcomes(SeqRaws) : GW_FallbackGenerated(p, out)
    \/ GW_FallbackSaveUser(p)
    \/ \E out \in AIPlanOutcomes(SeqRaws) : GW_NoPlanGenerated(p, out)
    \/ GW_NoPlanUpsert(p)
    \/ GW_NoPlanSaveUser(p)
    \/ GW_NoPlanRelease(p)
    \/ GW_DatabaseThrows(p)
    \/ \E c \in ClientPlans : OpenSeq /\ PW_FindUser(p, c)
    \/ PW_FindPlan(p)
    \/ PW_SaveUser(p)
    \/ PW_Upsert(p)
    \/ \E n \in 1..MaxDays, st \in DayStatusInputs : OpenSeq /\ PD_FindUser(p, n, st)
    \/ PD_SaveUser(p)
    \/ OpenSeq /\ GN_FindUser(p)
    \/ GN_FindScan(p)
    \/ \E out \in AIPlanOutcomes(SeqRaws) : GN_Generated(p, out)
    \/ GN_SaveUser(p)
    \/ GN_Upsert(p)
    \/ \E n \in 1..MaxDays : OpenSeq /\ SS_FindPlan(p, n)
    \/ SS_SavePlan(p)
    \/ \E n \in 1..MaxDays : OpenSeq /\ CD_FindPlan(p, n)
    \/ CD_NoPlanFindUser(p)
    \/ \E out \in AIPlanOutcomes(SeqRaws) : CD_NoPlanGenerated(p, out)
    \/ CD_NoPlanUpsert(p)
    \/ CD_NoPlanSaveUser(p)
    \/ CD_SavePlan(p)
    \/ \E c \in ExerciseCountInputs : CD_FindUser(p, c)
    \/ CD_SaveUser(p)
    \/ \E out \in NextWeekOutcomes(SeqRaws) : CD_NextWeekGenerated(p, out)
    \/ CD_SaveRollover(p)
    \/ CD_SaveUserPlan(p)
    \/ \E n \in 1..MaxDays : OpenSeq /\ LC_FindPlan(p, n)
    \/ LC_SavePlan(p)
    \/ LC_FindUser(p)
    \/ LC_SaveUser(p)
    \/ \E out \in NextWeekOutcomes(SeqRaws) : LC_NextWeekGenerated(p, out)
    \/ LC_SaveRollover(p)
    \/ LC_SaveUserPlan(p)

Next == Scans \/ Others

Spec == Init /\ [][Next]_vars

\* -- SpecComplete: overlapping complete-day requests on a week-1 plan of up
\* to MaxRaceDays days as a cold generation stored it in both documents
RacePlans == RawPlansOf(1..MaxRaceDays, {<<3>>})

InitComplete ==
  /\ IdleLocals
  /\ scan = TRUE
  /\ \E r \in RacePlans :
       /\ workoutPlan = UpsertPlan(NoPlanDoc, RepairDays(r), 1)
       /\ user = ScannedUser(5000, RepairDays(r))

NextComplete ==
  \E p \in Procs :
    \/ \E n \in 1..MaxRaceDays : Open /\ CD_FindPlan(p, n)
    \/ CD_SavePlan(p)
    \/ \E c \in ExerciseCountInputs : CD_FindUser(p, c)
    \/ CD_SaveUser(p)
    \/ \E out \in NextWeekOutcomes(RacePlans) : CD_NextWeekGenerated(p, out)
    \/ CD_SaveRollover(p)
    \/ CD_SaveUserPlan(p)

SpecComplete == InitComplete /\ [][NextComplete]_vars

\* -- SpecWeekly: overlapping GET weekly requests, next to a scan that is
\* about to store its template week, or on a store as a generation left it
\* (possibly with an empty week)
WeeklyRaws == RawPlansOf({0, CompleteMinDays}, {<<>>, <<2>>})

InitWeekly ==
  \/ \E p \in Procs \ Sequential, score \in ScanScores :
       ScanInFlight(p, score, FirstTemplate)
  \/ /\ IdleLocals
     /\ scan = TRUE
     /\ \E r \in WeeklyRaws :
          /\ workoutPlan = UpsertPlan(NoPlanDoc, RetryDays(r), 1)
          /\ user = ScannedUser(5000, RetryDays(r))

NextWeekly ==
  \/ Tick
  \/ \E p \in Procs :
       \/ Open /\ GW_CheckMarker(p)
       \/ GW_FindPlan(p)
       \/ GW_AfterFindPlan(p)
       \/ GW_RegenFindUser(p)
       \/ GW_RegenFindScan(p)
       \/ \E out \in AIPlanOutcomes(WeeklyRaws) : GW_RegenGenerated(p, out)
       \/ GW_RegenSavePlan(p)
       \/ GW_RegenSaveUser(p)
       \/ GW_RegenRelease(p)
       \/ GW_FallbackFindUser(p)
       \/ GW_AfterFallbackFindUser(p)
       \/ \E out \in AIPlanOutcomes(WeeklyRaws) : GW_FallbackGenerated(p, out)
       \/ GW_FallbackSaveUser(p)
       \/ \E out \in AIPlanOutcomes(WeeklyRaws) : GW_NoPlanGenerated(p, out)
       \/ GW_NoPlanUpsert(p)
       \/ GW_NoPlanSaveUser(p)
       \/ GW_NoPlanRelease(p)
       \/ GW_DatabaseThrows(p)
       \/ SC_TemplateUpsert(p)
       \/ \E out \in AIPlanOutcomes(WeeklyRaws) : SC_BgGenerated(p, out)
       \/ SC_BgUpsert(p)
       \/ SC_BgFindUser(p)
       \/ SC_BgSaveUser(p)

SpecWeekly == InitWeekly /\ [][NextWeekly]_vars

\* -- SpecWeek: a freshly generated week-1 plan of WeekDays days; the days are
\* completed in order, one request at a time
FreshWeeks == RawPlansOf({WeekDays}, RawShapes)

InitWeek ==
  /\ IdleLocals
  /\ scan = TRUE
  /\ \E r \in FreshWeeks :
       /\ workoutPlan = UpsertPlan(NoPlanDoc, RepairDays(r), 1)
       /\ user = ScannedUser(5000, RepairDays(r))

NextWeek ==
  \E p \in Sequential :
    \/ requests < WeekDays /\ CD_FindPlan(p, requests + 1)
    \/ CD_SavePlan(p)
    \/ \E c \in ExerciseCountInputs : CD_FindUser(p, c)
    \/ CD_SaveUser(p)
    \/ \E out \in NextWeekOutcomes(RawPlans) : CD_NextWeekGenerated(p, out)
    \/ CD_SaveRollover(p)
    \/ CD_SaveUserPlan(p)

SpecWeek == InitWeek /\ [][NextWeek]_vars

\* The exercise image queue: image requests, cache clearing, the drain loop
\* of processBackgroundQueue and the passing of time
InitAssets ==
  /\ IdleLocals
  /\ scan = FALSE
  /\ workoutPlan = NoPlanDoc
  /\ user = RegisteredUser

OpenImages == imageRequests < MaxImageRequests

NextAssets ==
  \/ /\ OpenImages
     /\ \E exerciseName \in ExerciseNames, exerciseId \in ExerciseIds :
          GenerateExerciseImage(exerciseName, exerciseId)
  \/ /\ OpenImages
     /\ ClearImageCache
  \/ \E outcome \in ProviderOutcomes : ProviderReplies(outcome)
  \/ NextPhase
  \/ NextExercise
  \/ Elapse

SpecAssets == InitAssets /\ [][NextAssets]_vars

\* -- SpecAssetsLive: the same queue, with MaxLiveRequests requests, when
\* every provider call returns and every timer fires
OpenLive == imageRequests < MaxLiveRequests

NextAssetsLive ==
  \/ /\ OpenLive
     /\ \E exerciseName \in ExerciseNames, exerciseId \in ExerciseIds :
          GenerateExerciseImage(exerciseName, exerciseId)
  \/ /\ OpenLive
     /\ ClearImageCache
  \/ \E outcome \in ProviderOutcomes : ProviderReplies(outcome)
  \/ NextPhase
  \/ NextExercise
  \/ Elapse

AssetsFairness ==
  /\ WF_vars(\E outcome \in ProviderOutcomes : ProviderReplies(outcome))
  /\ WF_vars(NextPhase)
  /\ WF_vars(NextExercise)
  /\ WF_vars(Elapse)

SpecAssetsLive == InitAssets /\ [][NextAssetsLive]_vars /\ AssetsFairness

\* POST /api/scan/analyze from its start to the stored analysis: the identity
\* check and analyzePhysiqueWithAI on the answers the providers can give
\* A provider answer of MaxDays days, each with one exercise of 3 steps
FirstRaw == [i \in 1..MaxDays |-> <<3>>]

\* The store of a user who was scanned before: a Scan document, the scan's
\* score and a generated week
ScannedStore ==
  /\ scan = TRUE
  /\ workoutPlan = UpsertPlan(NoPlanDoc, RepairDays(FirstRaw), 1)
  /\ user = ScannedUser(5000, RepairDays(FirstRaw))

FreshStore ==
  /\ scan = FALSE
  /\ workoutPlan = NoPlanDoc
  /\ user = RegisteredUser

InitScan ==
  /\ IdleLocals
  /\ FreshStore \/ ScannedStore

NextScan ==
  \/ SA_Accept
  \/ \E previous \in BOOLEAN : SA_FoundPrevious(previous)
  \/ \E verdict \in Verdicts : SA_Verified(verdict)
  \/ \E answer \in Answers :
       \E result \in analyzePhysiqueWithAI(answer) : SA_Analyzed(answer, result)
  \/ Renormalize
  \/ \E p \in Sequential :
       \/ SA_Store(p)
       \/ SC_FindUser(p)
       \/ SC_SaveUser(p)
       \/ SC_TemplateUpsert(p)
       \/ \E out \in AIPlanOutcomes({FirstRaw}) : SC_BgGenerated(p, out)
       \/ SC_BgUpsert(p)
       \/ SC_BgFindUser(p)
       \/ SC_BgSaveUser(p)

SpecScan == InitScan /\ [][NextScan]_vars

\* getTierFromScore on every pair of scores
InitTier ==
  /\ IdleRequests
  /\ scan = FALSE
  /\ workoutPlan = NoPlanDoc
  /\ user = RegisteredUser
  /\ scores \in ScoreInputs \X ScoreInputs
  /\ tiers = <<"none", "none">>

NextTier == \E k \in 1..2 : ApplyTier(k)

SpecTier == InitTier /\ [][NextTier]_vars

\* -- SpecPregen: the exercise image queue next to generatePlanForUser runs
\* started through the admin endpoint, for a user without and with a plan
InitPregen ==
  /\ IdleLocals
  /\ FreshStore \/ ScannedStore

OpenJobs == jobRuns < MaxJobRuns

NextPregen ==
  \/ NextAssets
  \/ /\ OpenJobs
     /\ AdminGeneratePlan
  \/ J_AfterFindPlan
  \/ J_AfterOnboarding
  \/ J_FromFindScan

SpecPregen == InitPregen /\ [][NextPregen]_vars

\* ----------------------------------------------------------- properties
\* Requests that set the regeneratingPlans marker and have not deleted it
HolderLabels ==
  {"gw_rg_user", "gw_rg_scan", "gw_rg_noscan", "gw_rg_gen", "gw_rg_save",
   "gw_rg_saveuser", "gw_rg_release", "gw_np_gen", "gw_np_upsert", "gw_np_saveuser",
   "gw_np_release"}

Holder(p) == pc[p] \in HolderLabels

LiveMarker == regeneratingPlans.set /\ ~Expired(regeneratingPlans)

\* C1: regeneration guard mutual exclusion.  No GET weekly request becomes
\* an acquirer of the marker (sets it and starts a regeneration) while
\* another request holds an acquisition whose marker is neither released nor
\* older than two minutes.
C1_OneAcquirerAtATime ==
  [][\A p \in Procs :
       (~Holder(p) /\ Holder(p)')
         => ~(LiveMarker /\ \E q \in Procs \ {p} : Holder(q))]_vars

C4_NonTodayChangesNothing ==
  [][\A p \in Procs :
       (fromStatus[p] \in {"upcoming", "done"} /\ pc'[p] # pc[p])
         => (workoutPlan' = workoutPlan /\ user' = user)]_vars

TodayCount(days) == Cardinality({i \in DOMAIN days : days[i].status = "today"})

\* C5: in every reachable state the stored plan has at most one day with
\* status 'today'.
C5_AtMostOneToday == workoutPlan.exists => TodayCount(workoutPlan.weeklyPlan) <= 1

\* C6: the stored week number never decreases, whatever operation writes the
\* plan.
C6_WeekNeverDecreases ==
  [][workoutPlan.exists
       => OrOne(workoutPlan'.currentWeek) >= OrOne(workoutPlan.currentWeek)]_vars

\* The six complete-day requests of the scenario are answered and the
\* generation of the next week was called once and returned a week
WeekCompleted ==
  /\ requests = WeekDays
  /\ \A p \in Procs : pc[p] = "idle"
  /\ rolloverCalls[1] = 1

\* C7: from a fresh week-1 plan of six days, completing days 1 to 6 in order,
\* one request at a time, with the next-week generation succeeding, ends with
\* currentWeek = 2, the first day of the new week 'today' and its other days
\* 'upcoming', and completedHistory holding exactly the six completed days in
\* completion order.
C7_SixDaysRollOver ==
  WeekCompleted =>
    /\ workoutPlan.currentWeek = 2
    /\ Len(workoutPlan.weeklyPlan) > 0
    /\ \A i \in DOMAIN workoutPlan.weeklyPlan :
         workoutPlan.weeklyPlan[i].status = IF i = 1 THEN "today" ELSE "upcoming"
    /\ workoutPlan.completedHistory =
         [i \in 1..WeekDays |-> [weekNumber |-> 1, dayNumber |-> i]]

\* C7 witness: the scenario ran to its end and the week rolled over
C7_ScenarioDone == WeekCompleted /\ Len(workoutPlan.completedHistory) = WeekDays

\* C8: every stored plan has between 3 and 7 days.
C8_ThreeToSevenDays == workoutPlan.exists => Len(workoutPlan.weeklyPlan) \in 3..7

\* C9: every exercise of every stored plan has at least 3 steps.
C9_ThreeStepsEach ==
  workoutPlan.exists =>
    \A i \in DOMAIN workoutPlan.weeklyPlan :
      \A e \in DOMAIN workoutPlan.weeklyPlan[i].exercises :
        workoutPlan.weeklyPlan[i].exercises[e] >= MinSteps

\* C10: every day of every stored plan has at least one exercise.
C10_NoDayWithoutExercises ==
  workoutPlan.exists =>
    \A i \in DOMAIN workoutPlan.weeklyPlan : Len(workoutPlan.weeklyPlan[i].exercises) > 0

\* C11: the drain loop never starts a provider call sooner than 15 seconds
\* after the end of its previous provider call, whatever exercise either call
\* was for, and also when the previous loop had ended or a phase had failed
C11_CallsKeepSpacing ==
  [][(consumer.pc # "fetch" /\ consumer'.pc = "fetch") => sinceCall >= 15]_vars

\* A provider call has ended and the drain loop is over
C11_LoopEndedAfterCall ==
  /\ sinceCall = 0
  /\ ~isProcessingBackgroundQueue

\* C12: a generate-exercise-image request whose lower-cased, trimmed name is
\* in the cache is answered with the cached images, leaves the queue as it
\* was and starts no provider call
C12_CacheHitLeavesQueue ==
  [][(/\ imageRequests' # imageRequests
      /\ imageReply'.source # "cleared"
      /\ Has(aiImageCache, Trim(LowerCased(imageReply'.exerciseName))))
     => /\ imageReply'.source = "ai-cached"
        /\ imageReply'.images = aiImageCache[Trim(LowerCased(imageReply'.exerciseName))]
        /\ UNCHANGED <<aiImageCache, backgroundImageQueue,
                       isProcessingBackgroundQueue, consumer>>]_vars

\* A request was answered from the cache under a name that differs from its key
C12_VariantNameHit ==
  /\ imageReply.source = "ai-cached"
  /\ imageReply.exerciseName # Trim(LowerCased(imageReply.exerciseName))
  /\ Len(imageReply.images) = PhaseCount

\* C13: every cache entry holds exactly three images whose phases are start,
\* middle, end in this order; a generation in which a phase call fails writes
\* no entry for its exercise name, and every generation starts again at the
\* first phase with no image kept from an earlier one
InGeneration == consumer.pc \in {"fetch", "phase_wait"}

C13_ThreePhasesOrNothing ==
  /\ [](\A key \in CacheKeys :
          Has(aiImageCache, key) =>
            /\ Len(aiImageCache[key]) = 3
            /\ [k \in 1..3 |-> aiImageCache[key][k].phase] = <<"start", "middle", "end">>)
  /\ [](InGeneration => ~Has(aiImageCache, consumer.cacheKey))
  /\ [][(consumer.pc = "fetch" /\ consumer'.result = "null")
          => /\ aiImageCache' = aiImageCache
             /\ ~Has(aiImageCache', consumer.cacheKey)]_vars
  /\ [][(~InGeneration /\ consumer'.pc = "fetch")
          => consumer'.i = 0 /\ consumer'.images = <<>>]_vars
  /\ [](consumer.pc = "fetch" => Len(consumer.images) = consumer.i)

\* The generation started by the first of two image requests failed and
\* cached nothing; the one started by the second is at its first phase
C13_RegeneratesAfterFailure ==
  /\ consumer.pc = "fetch"
  /\ consumer.i = 0
  /\ sinceCall = 0
  /\ imageRequests = 2
  /\ imageReply.source = "stock"
  /\ \A key \in CacheKeys : ~Has(aiImageCache, key)

\* C14: for every integer score in 0..100 getTierFromScore returns the label
\* of the one range that holds the score (0-34 Gym Bro, 35-44 Low-Tier Normie,
\* 45-54 Normie, 55-67 High-Tier Normie, 68-77 Chadlite, 78-87 Chad,
\* 88-92 Gigachad, 93-96 Mogger, 97-100 Final Boss Mogger), and for a < b the
\* tier of a is never higher than the tier of b
C14_Ranges ==
  << [from |-> 0, to |-> 34, name |-> "Gym Bro"],
     [from |-> 35, to |-> 44, name |-> "Low-Tier Normie"],
     [from |-> 45, to |-> 54, name |-> "Normie"],
     [from |-> 55, to |-> 67, name |-> "High-Tier Normie"],
     [from |-> 68, to |-> 77, name |-> "Chadlite"],
     [from |-> 78, to |-> 87, name |-> "Chad"],
     [from |-> 88, to |-> 92, name |-> "Gigachad"],
     [from |-> 93, to |-> 96, name |-> "Mogger"],
     [from |-> 97, to |-> 100, name |-> "Final Boss Mogger"] >>

C14_Rank(name) == CHOOSE r \in 1..Len(C14_Ranges) : C14_Ranges[r].name = name

C14_TierOfRange ==
  /\ \A k \in 1..2 :
       (tiers[k] # "none" /\ scores[k] \in 0..100) =>
         /\ \E r \in 1..Len(C14_Ranges) :
              scores[k] \in C14_Ranges[r].from .. C14_Ranges[r].to
         /\ \A r \in 1..Len(C14_Ranges) :
              scores[k] \in C14_Ranges[r].from .. C14_Ranges[r].to
                => tiers[k] = C14_Ranges[r].name
  /\ (tiers[1] # "none" /\ tiers[2] # "none" /\ scores[1] < scores[2])
       => C14_Rank(tiers[1]) <= C14_Rank(tiers[2])

\* The function was applied on both sides of the boundary at 35
C14_BoundaryApplied ==
  /\ scores = <<34, 35>>
  /\ tiers = <<"Gym Bro", "Low-Tier Normie">>

\* C15: in every analysis that analyzePhysiqueWithAI returns as valid, the
\* overall score, the symmetry value and every muscle score that is not null
\* lie in 0..100, whatever numbers the provider returned
InRange(v) == v.t = "number" => v.n \in 0..100

C15_NumbersInRange ==
  analysis.isValidPhysique = "true" =>
    /\ InRange(analysis.mogScore)
    /\ InRange(analysis.symmetry)
    /\ \A m \in Muscles : InRange(analysis.muscleBreakdown[m])

\* A valid analysis was returned for an answer with numbers outside 0..100
C15_OutOfRangeAnswered ==
  /\ analysis.isValidPhysique = "true"
  /\ providerAnswer.kind = "json"
  /\ ~InRange(providerAnswer.analysis.symmetry)

\* C16: the muscleBreakdown of a scan result holds null, never a number, for
\* every muscle group the provider marked as not visible: its score null or
\* absent, or its name listed in notVisible
MarkedNotVisible(raw, m) ==
  \/ raw.muscleBreakdown[m].t \in {"undefined", "null"}
  \/ raw.notVisible.t = "array" /\ InSeq(m, raw.notVisible.items)

C16_NotVisibleStaysNull ==
  (analysis.isValidPhysique = "true" /\ providerAnswer.kind = "json") =>
    \A m \in Muscles :
      MarkedNotVisible(providerAnswer.analysis, m) => analysis.muscleBreakdown[m] = Null

\* A valid analysis was returned for an answer that lists chest in notVisible
C16_ListedAnswered ==
  /\ analysis.isValidPhysique = "true"
  /\ providerAnswer.kind = "json"
  /\ InSeq("chest", providerAnswer.analysis.notVisible.items)

\* C17: the tier of a normalized analysis is getTierFromScore of the score
\* it stores, for every raw score of the provider (in range, out of range,
\* zero or missing) and whatever tier the provider's answer names
C17_TierOfStoredScore ==
  analysis.isValidPhysique = "true" =>
    analysis.tier = getTierFromScore(analysis.mogScore.n)

\* An answer with a score above 100 and a tier of its own was normalized
C17_OutOfRangeScored ==
  /\ providerAnswer.kind = "json"
  /\ providerAnswer.analysis.mogScore.n > 100
  /\ providerAnswer.analysis.tier = "Chad"
  /\ analysis.isValidPhysique = "true"
  /\ analysis.tier = "Final Boss Mogger"

\* C18: for an answer with all fields present and in range, normalizing the
\* normalized analysis again yields the same analysis
AllPresentInRange(raw) ==
  /\ raw.isValidPhysique = "true"
  /\ raw.tier # "undefined"
  /\ raw.mogScore.t = "number" /\ InRange(raw.mogScore)
  /\ raw.symmetry.t = "number" /\ InRange(raw.symmetry)
  /\ \A m \in Muscles : raw.muscleBreakdown[m].t = "number" /\ InRange(raw.muscleBreakdown[m])
  /\ \A f \in {raw.notVisible, raw.weakPoints, raw.strongPoints} : f.t = "array"

C18_RenormalizedIsSame ==
  (reanalysis # NoAnalysis /\ AllPresentInRange(providerAnswer.analysis)) =>
    reanalysis = analysis

\* The analysis of a complete, in-range answer with score 100 was normalized
\* again
C18_MaximalRenormalized ==
  /\ reanalysis # NoAnalysis
  /\ AllPresentInRange(providerAnswer.analysis)
  /\ providerAnswer.analysis.mogScore = Num(100)

\* C19: when the provider's reply cannot be parsed or signals an invalid
\* physique, analyzePhysiqueWithAI returns isValidPhysique false with the
\* rejection reason and no other field, never a valid analysis
Rejecting(answer) ==
  \/ answer.kind = "unparsable"
  \/ answer.kind = "json" /\ answer.analysis.isValidPhysique = "false"

C19_RejectionOnly ==
  (analysis # NoAnalysis /\ Rejecting(providerAnswer)) =>
    /\ analysis.isValidPhysique = "false"
    /\ DOMAIN analysis = {"isValidPhysique", "errorMessage"}

\* analyzePhysiqueWithAI returned for a reply that JSON.parse rejects
C19_UnparsableAnswered ==
  /\ analysis # NoAnalysis
  /\ providerAnswer.kind = "unparsable"

\* C20: the scan goes on to the analysis when there is no previous front
\* image or the identity provider call throws, and it is rejected as a
\* different person only when the parsed verdict has isSamePerson = false,
\* never when the field is missing
C20_IdentityFailOpen ==
  /\ (scanPc \in {"analyze", "valid", "done"} /\ ~previousScan)
       => ~scanReply.differentUser
  /\ identityAnswer = "throws" => (scanPc # "done" /\ ~scanReply.differentUser)
  /\ scanReply.differentUser => identityAnswer = "false"

\* The identity provider answered a verdict without isSamePerson
C20_VerdictWithoutField ==
  /\ previousScan
  /\ identityAnswer = "undefined"
  /\ scanPc # "verify"

\* C21: a scan request rejected for identity mismatch or for an invalid
\* analysis persists nothing: no Scan record is created and the user and the
\* stored plan stay as they were; on identity mismatch the analysis provider
\* is not called
IdentityMismatch == identityCheck.isSamePerson \notin {"none", "true"}

C21_RejectedPersistsNothing ==
  (IdentityMismatch \/ analysis.isValidPhysique = "false") =>
    /\ requests = 0
    /\ \A p \in Procs : pc[p] = "idle"
    /\ FreshStore \/ ScannedStore
    /\ IdentityMismatch => (providerAnswer.kind = "none" /\ analysis = NoAnalysis)

\* A scan of a user with an earlier scan was rejected for an invalid analysis
C21_InvalidRejected ==
  /\ ScannedStore
  /\ previousScan
  /\ analysis.isValidPhysique = "false"
  /\ scanReply.status = 400

\* The marker is set and at most RegenTimeout minutes old
LiveMarkerSet == regeneratingPlans.set /\ regeneratingPlans.age <= RegenTimeout

\* C22: a GET /api/training/:userId/weekly that arrives while the marker is
\* set and at most two minutes old ends at once: no handler is suspended in
\* the generator on its behalf, the stored plan, the user and the marker are
\* what they were, and the answer is the successful "regenerating" one
C22_LiveMarkerAnswersRegenerating ==
  [][(requests' = requests + 1 /\ LiveMarkerSet)
       => /\ pc' = pc
          /\ workoutPlan' = workoutPlan
          /\ user' = user
          /\ regeneratingPlans' = regeneratingPlans
          /\ rolloverCalls' = rolloverCalls
          /\ weeklyReply' = "regenerating"]_vars

C22_AnsweredRegenerating ==
  /\ weeklyReply = "regenerating"
  /\ LiveMarkerSet
  /\ \E p \in Procs : pc[p] \in {"gw_rg_gen", "gw_np_gen"}

\* Where a complete-day handler waits for generateNextWeekPlan, and where
\* it is about to save the week that call returned
RolloverGenerating == {"cd_gen", "lc_gen"}

RolloverSaving == {"cd_saveroll", "lc_saveroll"}

\* C23: when the week is completed and generateNextWeekPlan throws or
\* returns no days, the request writes nothing to the stored plan: it ends
\* at the failed call, and a save after the call never stores a week
\* without days
C23_FailedRolloverKeepsWeek ==
  [][\A p \in Procs :
       /\ (pc[p] \in RolloverGenerating /\ pc'[p] = "idle")
            => workoutPlan' = workoutPlan
       /\ (pc[p] \in RolloverSaving /\ pc'[p] # pc[p]
              /\ Len(plan[p].weeklyPlan) = 0)
            => workoutPlan' = workoutPlan]_vars

C23_EmptyWeekStored ==
  /\ workoutPlan.exists
  /\ workoutPlan.currentWeek = 2
  /\ Len(workoutPlan.weeklyPlan) = 0
  /\ Len(workoutPlan.completedHistory) > 0

\* GET /api/training/:userId/weekly has loaded a stored week whose days are
\* all 'done': the week a failed rollover leaves behind
LoadedCompletedWeek(p) ==
  /\ pc[p] = "gw_plan"
  /\ plan[p].exists
  /\ Len(plan[p].weeklyPlan) > 0
  /\ AllDone(plan[p].weeklyPlan)

\* C24: a GET /api/training/:userId/weekly that finds the week a failed
\* rollover left behind calls generateNextWeekPlan again
C24_WeeklyRetriesRollover ==
  [][\A p \in Procs :
       (LoadedCompletedWeek(p) /\ pc'[p] # pc[p])
         => rolloverCalls' = CallRollover(plan[p])]_vars

C24_CompletedWeekLoaded ==
  \E p \in Procs :
    /\ LoadedCompletedWeek(p)
    /\ Len(plan[p].completedHistory) > 0
    /\ workoutPlan = plan[p]
    /\ \A q \in Procs \ {p} : pc[q] = "idle"

\* Where POST /api/training/:userId/complete-day is suspended after its
\* plan.save() of the day and before any rollover
DaySaved == {"cd_finduser", "cd_saveuser", "cd_gen"}

\* Day n of the stored week is 'done' and the stored history has its entry
StoredDone(n) ==
  /\ FindDay(workoutPlan.weeklyPlan, n) # 0
  /\ workoutPlan.weeklyPlan[FindDay(workoutPlan.weeklyPlan, n)].status = "done"
  /\ \E i \in DOMAIN workoutPlan.completedHistory :
       workoutPlan.completedHistory[i].dayNumber = n

TemplateStored ==
  /\ scanPc = "valid"
  /\ workoutPlan.exists
  /\ workoutPlan.weeklyPlan =
       GenerateWorkoutPlan(MaxDays, "full-gym", WeakPointsOf(analysis))

\* C26: for a non-empty weakPoints list the first day of the template week
\* is built for weakPoints[0] and holds at least one exercise whose muscle
\* is weakPoints[0]
C26_FirstDayTrainsWeakPoint ==
  (TemplateStored /\ WeakPointsOf(analysis) # <<>>)
    => LET first == workoutPlan.weeklyPlan[1]
           weak == WeakPointsOf(analysis)[1]
       IN /\ first.muscles # <<>>
          /\ first.muscles[1] = weak
          /\ \E e \in DOMAIN first.exerciseMuscles : first.exerciseMuscles[e] = weak

C26_CoreFirstStored ==
  /\ TemplateStored
  /\ WeakPointsOf(analysis) = <<"core", "legs">>
  /\ workoutPlan.weeklyPlan[1].muscles = <<"core", "legs">>
  /\ workoutPlan.weeklyPlan[1].exerciseMuscles = <<"legs", "legs", "legs">>

\* Where a handler that found no stored plan waits for generateAITrainingPlan
NoPlanGenerating == {"gw_np_gen", "cd_np_gen"}

\* C27: a request that generates a plan for a user without one never ends
\* at the generator call with no plan stored: when the provider fails on the
\* primary and on the retry call, a plan is stored all the same
C27_FailedGenerationStoresPlan ==
  [][\A p \in Procs :
       (pc[p] \in NoPlanGenerating /\ pc'[p] = "idle")
         => workoutPlan'.exists /\ Len(workoutPlan'.weeklyPlan) > 0]_vars

C27_GeneratingWithoutPlan ==
  \E p \in Procs :
    /\ pc[p] \in NoPlanGenerating
    /\ usr[p].latestScan
    /\ ~workoutPlan.exists

\* Where the two complete-day handlers wait for plan.save() of the day
DaySaving == {"cd_save", "lc_save"}

\* The status the claim gives a day once day n is completed
StatusAfterCompleting(d, n) ==
  IF d.day = n THEN "done"
  ELSE IF d.day = n + 1 /\ d.status = "upcoming" THEN "today"
  ELSE d.status

\* C28: a complete-day request for day d, on either endpoint, makes d 'done',
\* makes d + 1 'today' exactly when it exists and is 'upcoming', leaves the
\* status of every other day alone, and its save stores that week
C28_CompleteDayMarksAndAdvances ==
  [][\A p \in Procs :
       /\ (pc[p] = "idle" /\ pc'[p] \in DaySaving)
            => /\ Len(plan'[p].weeklyPlan) = Len(workoutPlan.weeklyPlan)
               /\ \A i \in DOMAIN workoutPlan.weeklyPlan :
                    plan'[p].weeklyPlan[i].status =
                      StatusAfterCompleting(workoutPlan.weeklyPlan[i],
                                            req'[p].dayNumber)
       /\ (pc[p] \in DaySaving /\ pc'[p] # pc[p])
            => workoutPlan'.weeklyPlan = plan[p].weeklyPlan]_vars

C28_LegacyDayNotAdvanced ==
  \E p \in Procs :
    /\ pc[p] = "lc_finduser"
    /\ req[p].dayNumber = 1
    /\ Len(plan[p].weeklyPlan) > 1
    /\ plan[p].weeklyPlan[1].status = "done"
    /\ plan[p].weeklyPlan[2].status = "upcoming"
    /\ workoutPlan.weeklyPlan[1].status = "today"

\* A GET /api/training/:userId/weekly request arrives in this step
WeeklyArrives == requests' = requests + 1

C30_MarkerOnlyWhileRegenerating ==
  regeneratingPlans.set => \E p \in Procs : Holder(p)

\* The request that set the marker has ended with a 500 and has left it set
C30_MarkerLeftBehind ==
  /\ regeneratingPlans.set
  /\ weeklyReply = "error"
  /\ \A p \in Procs : pc[p] = "idle"

\* C31: there is at most one pending request per normalized exercise name:
\* no two queue entries have the same cache key, and no queue entry has the
\* cache key of the entry that is being generated
C31_OnePendingPerName ==
  /\ \A j, k \in 1..Len(backgroundImageQueue) :
       j # k => CacheKey(backgroundImageQueue[j].exerciseName)
                  # CacheKey(backgroundImageQueue[k].exerciseName)
  /\ InGeneration => ~AlreadyQueued(backgroundImageQueue, consumer.cacheKey)

\* A name is being generated and the queue holds an entry for the same name
C31_QueuedWhileGenerated ==
  /\ InGeneration
  /\ AlreadyQueued(backgroundImageQueue, consumer.cacheKey)
  /\ imageReply.source = "stock"
  /\ CacheKey(imageReply.exerciseName) = consumer.cacheKey

\* C32: the queue has a single consumer: at most one invocation of
\* processBackgroundQueue is between its guard and its end, and the flag is
\* set exactly while one is
C32_SingleConsumer ==
  /\ drainLoops <= 1
  /\ isProcessingBackgroundQueue <=> drainLoops = 1

\* A request found the loop suspended in a provider call: it was queued
\* behind the flag and no second loop started
C32_QueuedBehindRunningLoop ==
  /\ drainLoops = 1
  /\ consumer.pc = "fetch"
  /\ backgroundImageQueue # <<>>
  /\ imageReply.source = "stock"
  /\ CacheKey(imageReply.exerciseName) # consumer.cacheKey

\* C33: the cache is write-once per key: as long as the cache is not cleared
\* an entry is never replaced or removed, and no provider call is pending
\* for an exercise name whose key has an entry
C33_WriteOnce ==
  /\ [](consumer.pc = "fetch" => aiImageCache[consumer.cacheKey] = <<>>)
  /\ [][imageReply'.source # "cleared" =>
          \A key \in CacheKeys :
            aiImageCache[key] # <<>> => aiImageCache'[key] = aiImageCache[key]]_vars

\* A generation has just written its entry while a second request for the
\* same name waits in the queue
C33_DuplicateWaitsForCachedName ==
  /\ consumer.pc = "exercise_wait"
  /\ consumer.result = "images"
  /\ \E k \in 1..Len(backgroundImageQueue) :
       aiImageCache[CacheKey(backgroundImageQueue[k].exerciseName)] # <<>>

C34_ReleaseKeepsOthersMarker ==
  [][\A p \in Procs :
       (/\ Holder(p)
        /\ ~Holder(p)'
        /\ \E q \in Procs \ {p} : Holder(q) /\ Holder(q)')
         => regeneratingPlans'.set]_vars

\* The first regeneration has ended and its release has removed the marker
\* of the second one, which is still generating
C34_MarkerOfOtherRemoved ==
  \E p, q \in Procs :
    /\ requests = 2
    /\ pc[p] = "idle"
    /\ weeklyReply = "plan"
    /\ pc[q] = "gw_rg_gen"
    /\ ~regeneratingPlans.set

\* The awaits of generateAITrainingPlan and generateNextWeekPlan
GenerationLabels ==
  {"sc_bg_gen", "gw_rg_gen", "gw_fb_gen", "gw_np_gen", "cd_np_gen", "cd_gen",
   "lc_gen", "gn_gen"}

PlanGenerations ==
  Cardinality({p \in Procs : pc[p] \in GenerationLabels})
    + (IF job.pc = "generating" THEN 1 ELSE 0)

\* C35: at no time are two plan generations in flight for the user
C35_OneGenerationInFlight == PlanGenerations <= 1

\* The background generation of a scan and the regeneration of a GET weekly
\* request are in flight together
C35_ScanAndWeeklyGenerate ==
  \E p, q \in Procs :
    /\ pc[p] = "sc_bg_gen"
    /\ pc[q] \in {"gw_rg_gen", "gw_fb_gen"}

\* C36: the user's stored mogScore stays within [0, 100]; the model holds
\* scores in hundredths
C36_ScoreWithinBounds == user.mogScore >= 0 /\ user.mogScore <= 100 * 100

\* A scan stored the score 100 and a day was completed after it
C36_CompletedAfterTopScan ==
  /\ user.latestScan
  /\ user.totalWorkouts = 1
  /\ user.mogScore = 100 * 100 + MogPoints(DefaultExerciseCount)

\* The statuses of a day list, day by day
Statuses(days) == [i \in 1..Len(days) |-> days[i].status]

\* The WorkoutPlan document and User.weeklyTrainingPlan show the same week
\* and the same status for every day
PlansAgree ==
  /\ OrOne(workoutPlan.currentWeek) = OrOne(user.weeklyTrainingPlan.currentWeek)
  /\ Statuses(workoutPlan.weeklyPlan) = Statuses(user.weeklyTrainingPlan.days)

\* C37: whenever no request is in progress, the plan in the WorkoutPlan
\* document and the copy in User.weeklyTrainingPlan agree on the week number
\* and on the status of every day
C37_PlansAgreeAtRest ==
  (/\ \A p \in Procs : pc[p] = "idle"
   /\ workoutPlan.exists
   /\ user.weeklyTrainingPlan.exists)
    => PlansAgree

\* The first completion of day 1 was acknowledged: the WorkoutPlan document
\* shows the day done while the user's copy still shows it as today's
C37_CopyMissesCompletion ==
  /\ \A p \in Procs : pc[p] = "idle"
  /\ requests = 1
  /\ workoutPlan.weeklyPlan[1].status = "done"
  /\ user.weeklyTrainingPlan.days[1].status = "today"

\* C39: queue draining terminates.  No entry is in the queue while no drain
\* loop is running, and when every provider call returns a running loop
\* ends with the queue empty and the flag cleared
C39_QueueDrains ==
  /\ [](backgroundImageQueue # <<>> => isProcessingBackgroundQueue)
  /\ isProcessingBackgroundQueue
       ~> (~isProcessingBackgroundQueue /\ backgroundImageQueue = <<>>)

\* A loop has ended with a failed generation, after an earlier generation
\* had cached its exercise name
C39_DrainedAfterTwoNames ==
  /\ ~isProcessingBackgroundQueue
  /\ backgroundImageQueue = <<>>
  /\ consumer.pc = "idle"
  /\ consumer.result = "null"
  /\ \E key \in CacheKeys : aiImageCache[key] # <<>>

====
